---- MODULE Spec2Model ----
(***************************************************************************)
(* PicoGL.js: the App state cache (appState), the resource wrappers that   *)
(* read and write it (Program, VertexArray, TransformFeedback,             *)
(* Framebuffer, Texture, Cubemap, UniformBuffer), the UniformBuffer        *)
(* std140 layout / set / update path, the DrawCall with its staged         *)
(* uniforms, textures, counts and transform feedback, the Query / Timer    *)
(* polling cycle, the Program link check, the App viewport, and the        *)
(* restore() / delete() of Renderbuffer and VertexBuffer.                  *)
(*                                                                         *)
(* Wrappers are identified by strings.  A native handle is modelled by a   *)
(* boolean: TRUE when the wrapper's handle field is non-null.  The WebGL   *)
(* context is modelled by the list of native calls the last operation      *)
(* issued (nativeCalls) and, for uniform buffers, by the contents of the   *)
(* buffer object the wrapper currently owns (deviceData).                  *)
(***************************************************************************)
EXTENDS Integers, Sequences, FiniteSets, TLC

Null == "null"

\* The JavaScript value undefined where a number is expected: an array entry
\* never assigned, a missing property, an omitted argument.
Undefined == -1

\* Bounds of the model.
NumUnits == 2
NumBases == 2
MaxWrappers == 2
MaxDim == 2
MaxItems == 1
MaxLen == 3
MaxValue == 1
MaxFeedbackBuffers == 1
MaxColorTargets == 3
MaxStaged == 3
MaxCount == 2
MaxClock == 3

\* Wrapper pools (the objects an application may construct).
Programs == {"p1"}
VertexArrays == {"va1"}
TransformFeedbacks == {"tf1"}
Framebuffers == {"fb1", "fb2"}
Textures == {"t1", "t2"}
Cubemaps == {"c1"}
UniformBuffers == {"u1", "u2"}
Renderbuffers == {"rb1"}
VertexBuffers == {"vb1"}

Samplable == Textures \cup Cubemaps
Wrappers == Programs \cup VertexArrays \cup TransformFeedbacks \cup Framebuffers
              \cup Samplable \cup UniformBuffers \cup Renderbuffers
              \cup VertexBuffers

Units == 0 .. (NumUnits - 1)
Bases == 0 .. (NumBases - 1)
Dims == 1 .. MaxDim

VARIABLES
    appState,      \* App.state: the tracked GL state
    created,       \* wrappers that have been constructed
    handle,        \* wrapper -> its native handle field is non-null
    deleted,       \* wrappers on which delete() has been called (history)
    currentUnit,   \* Texture/Cubemap.currentUnit
    currentBase,   \* UniformBuffer.currentBase
    width,         \* Texture.width
    height,        \* Texture.height
    vaState,       \* VertexArray fields; given: the constructor's counts (history)
    angleBugBuffers, \* TransformFeedback.angleBugBuffers
    colorAttachments, \* Framebuffer.colorAttachments
    colorAttachmentEnums,   \* Framebuffer.colorAttachmentEnums
    colorAttachmentTargets, \* Framebuffer.colorAttachmentTargets
    depthAttachment,  \* Framebuffer.depthAttachment
    fbSize,        \* Framebuffer.width, Framebuffer.height
    layout,        \* UniformBuffer constructor argument
    offsets,       \* UniformBuffer.offsets
    sizes,         \* UniformBuffer.sizes
    types,         \* UniformBuffer.types
    size,          \* UniformBuffer.size
    data,          \* UniformBuffer.data (32-bit words of the backing store)
    deviceData,    \* contents of the native buffer UniformBuffer.buffer names
    uploaded,      \* per word: value of the last upload that covered it (history)
    lastOp,        \* the operation that produced this state (history)
    nativeCalls,   \* native calls issued by that operation
    programInfo,   \* Program.uniforms, Program.samplers, Program.uniformBlocks
    drawCall,      \* the fields of a DrawCall
    staged,        \* the uniform(name, value) calls made on it (history)
    result,        \* how the last DrawCall operation ended: exception thrown,
                   \* console.error calls
    queryState,    \* Query fields (query: the handle is non-null); cycle: how far begin()/end() got (history)
    deviceQuery,   \* the GL query object behind each Query
    timer,         \* Timer fields; cycle: how far start()/end() got (history)
    clock,         \* what performance.now() returns
    returned,      \* what the last ready() returned
    linkage,       \* Program.linked, Program.linkFailed, and what the driver
                   \* holds for the native program
    app,           \* App.width, App.height, the App.viewport* fields and the
                   \* viewport the context holds
    rbState,       \* Renderbuffer fields
    vbState,       \* VertexBuffer fields
    native         \* the WebGL context: its binding points and the objects
                   \* behind the wrappers' handles, as the native calls
                   \* issued so far have left them

cacheVars == <<appState, created, handle, deleted, currentUnit, currentBase,
               width, height, vaState, angleBugBuffers, colorAttachments,
               colorAttachmentEnums, colorAttachmentTargets,
               depthAttachment, fbSize>>
fbVars == <<colorAttachments, colorAttachmentEnums, colorAttachmentTargets,
            depthAttachment, fbSize>>
ubVars == <<layout, offsets, sizes, types, size, data, deviceData, uploaded>>
vars == <<appState, created, handle, deleted, currentUnit, currentBase,
          width, height, vaState, angleBugBuffers, colorAttachments,
          colorAttachmentEnums, colorAttachmentTargets,
          depthAttachment, fbSize,
          layout, offsets, sizes, types, size, data, deviceData, uploaded,
          lastOp, nativeCalls, programInfo, drawCall, staged, result,
          queryState, deviceQuery, timer, clock, returned,
          linkage, app, rbState, vbState, native>>

\* The variables of the asynchronous Program link, the App viewport, the
\* Renderbuffer and the VertexBuffer.
miscVars == <<linkage, app, rbState, vbState>>

\* The variables of the Query and Timer operations.
queryVars == <<queryState, deviceQuery, timer, clock, returned>>

\* The variables of the draw-call operations.
drawVars == <<programInfo, drawCall, staged, result>>

\* The variables the operations of the wrappers above leave alone.
extVars == <<drawVars, queryVars, miscVars>>

\* The wrapper fields and cache slots, without the history variables.
programState == <<appState, handle, currentUnit, currentBase, width, height,
                  vaState, angleBugBuffers, colorAttachments,
                  colorAttachmentEnums, colorAttachmentTargets, depthAttachment,
                  fbSize, layout, offsets, sizes, types, size, data, deviceData>>

----------------------------------------------------------------------------
\* Some slot of the state cache references wrapper w.
InCache(st, w) ==
    \/ st.program = w
    \/ st.vertexArray = w
    \/ st.transformFeedback = w
    \/ st.drawFramebuffer = w
    \/ st.readFramebuffer = w
    \/ \E n \in Units : st.textures[n] = w
    \/ \E n \in Bases : st.uniformBuffers[n] = w

\* History record of an operation.  again: the previous operation was the
\* same method on the same wrapper with the same slot argument.  For a
\* delete, wasBound: a cache slot referenced the wrapper when delete() began;
\* fresh: delete() had never been called on the wrapper before.  For an
\* update(i), afterSet: the previous operation was set(i, v) on the wrapper.
Op(name, w, slot) ==
    [op |-> name, w |-> w, slot |-> slot,
     again |-> (lastOp.op = name /\ lastOp.w = w /\ lastOp.slot = slot),
     wasBound |-> (name = "delete" /\ InCache(appState, w)),
     fresh |-> (name = "delete" => w \notin deleted),
     afterSet |-> (name = "UniformBuffer.update"
                   /\ lastOp.op = "UniformBuffer.set"
                   /\ lastOp.w = w /\ lastOp.slot = slot)]

CanCreate(w) == w \notin created

\* A native call: gl.<f>(... obj ... n ...) with an optional data payload.
Call(f, obj, n) == [f |-> f, obj |-> obj, n |-> n, payload |-> <<>>]
Upload(f, obj, n, words) == [f |-> f, obj |-> obj, n |-> n, payload |-> words]

----------------------------------------------------------------------------
\* The WebGL context behind the wrappers (the effect of the native calls)

\* What a binding point holds: the object a wrapper's handle named when it
\* was bound; current is FALSE once the wrapper has replaced that object by
\* a new one.  Nothing bound is NoBinding.
NoBinding == [w |-> Null, current |-> TRUE]
BindingOf(nat, obj) ==
    IF obj \in DOMAIN nat.live /\ nat.live[obj]
    THEN [w |-> obj, current |-> TRUE] ELSE NoBinding

FeedbackIndices == 0 .. (MaxFeedbackBuffers - 1)

\* The context before any call.  followed: the behaviour keeps track of the
\* context; a specification whose properties do not read the context
\* starts with it FALSE and leaves the context at NoContext.
NoContext ==
    [followed |-> TRUE,
     live |-> [w \in Wrappers |-> FALSE],
     program |-> NoBinding,
     vertexArray |-> NoBinding,
     drawFramebuffer |-> NoBinding,
     readFramebuffer |-> NoBinding,
     transformFeedback |-> NoBinding,
     activeTexture |-> 0,
     textures |-> [unit \in Units |-> NoBinding],
     uniformBuffers |-> [base \in Bases |-> NoBinding],
     feedbackBuffers |-> [f \in TransformFeedbacks \cup {Null} |->
                            [i \in FeedbackIndices |-> Null]],
     contents |-> [w \in Samplable \cup VertexBuffers |-> "none"]]

\* A binding point after every binding of obj's object in it became b.
Rebound(slot, obj, b) ==
    IF slot = [w |-> obj, current |-> TRUE] THEN b ELSE slot

\* The binding points after the object behind obj stopped being the one
\* obj's handle names: b is what a binding of it turns into.
Released(nat, obj, b) ==
    [nat EXCEPT
       !.program = Rebound(@, obj, [w |-> obj, current |-> FALSE]),
       !.vertexArray = Rebound(@, obj, b),
       !.drawFramebuffer = Rebound(@, obj, b),
       !.readFramebuffer = Rebound(@, obj, b),
       !.transformFeedback = Rebound(@, obj, b),
       !.textures = [unit \in Units |-> Rebound(@[unit], obj, b)],
       !.uniformBuffers = [base \in Bases |-> Rebound(@[base], obj, b)]]

CreateCalls == {"createProgram", "createVertexArray", "createFramebuffer",
                "createTransformFeedback", "createTexture", "createBuffer",
                "createRenderbuffer"}
DeleteCalls == {"deleteProgram", "deleteVertexArray", "deleteFramebuffer",
                "deleteTransformFeedback", "deleteTexture", "deleteBuffer",
                "deleteRenderbuffer"}

\* The context after one native call.  A create call is followed by the
\* assignment of the new object to the wrapper's handle, so the object the
\* handle named before stays where it was bound but is no longer current; a
\* deleted object leaves the binding points it was bound to (a program in
\* use stays in use).
FollowCall(nat, c) ==
    CASE c.f \in CreateCalls /\ c.obj \in DOMAIN nat.live ->
            LET n1 == Released(nat, c.obj, [w |-> c.obj, current |-> FALSE])
                n2 == [n1 EXCEPT !.live[c.obj] = TRUE]
                n3 == IF c.obj \in DOMAIN nat.contents
                      THEN [n2 EXCEPT !.contents[c.obj] = "none"] ELSE n2
            IN IF c.obj \in TransformFeedbacks
               THEN [n3 EXCEPT !.feedbackBuffers[c.obj] =
                                  [i \in FeedbackIndices |-> Null]]
               ELSE n3
      [] c.f \in DeleteCalls /\ c.obj \in DOMAIN nat.live ->
            [Released(nat, c.obj, NoBinding) EXCEPT !.live[c.obj] = FALSE]
      [] c.f = "useProgram" -> [nat EXCEPT !.program = BindingOf(nat, c.obj)]
      [] c.f = "bindVertexArray" ->
            [nat EXCEPT !.vertexArray = BindingOf(nat, c.obj)]
      [] c.f = "bindFramebuffer" /\ c.payload = <<"DRAW_FRAMEBUFFER">> ->
            [nat EXCEPT !.drawFramebuffer = BindingOf(nat, c.obj)]
      [] c.f = "bindFramebuffer" /\ c.payload = <<"READ_FRAMEBUFFER">> ->
            [nat EXCEPT !.readFramebuffer = BindingOf(nat, c.obj)]
      [] c.f = "bindTransformFeedback" ->
            [nat EXCEPT !.transformFeedback = BindingOf(nat, c.obj)]
      [] c.f = "activeTexture" -> [nat EXCEPT !.activeTexture = c.n]
      [] c.f = "bindTexture" ->
            [nat EXCEPT !.textures[nat.activeTexture] = BindingOf(nat, c.obj)]
      [] c.f = "bindBufferBase" /\ c.obj \in UniformBuffers ->
            [nat EXCEPT !.uniformBuffers[c.n] = BindingOf(nat, c.obj)]
      [] c.f = "bindBufferBase" /\ c.obj \notin UniformBuffers ->
            IF nat.transformFeedback.current
            THEN [nat EXCEPT
                    !.feedbackBuffers[nat.transformFeedback.w][c.n] = c.obj]
            ELSE nat
      [] c.f = "texStorage2D" /\ c.obj \in DOMAIN nat.contents ->
            [nat EXCEPT !.contents[c.obj] = "blank"]
      [] c.f = "texSubImage2D" /\ c.obj \in DOMAIN nat.contents ->
            [nat EXCEPT !.contents[c.obj] = "image"]
      [] c.f \in {"bufferData", "bufferSubData"}
            /\ c.obj \in DOMAIN nat.contents ->
            [nat EXCEPT !.contents[c.obj] =
                           IF c.payload = <<>> THEN "blank" ELSE c.payload[1]]
      [] OTHER -> nat

\* The context after the calls from the i-th on.
RECURSIVE FollowCalls(_, _, _)
FollowCalls(nat, calls, i) ==
    IF i > Len(calls) THEN nat
    ELSE FollowCalls(FollowCall(nat, calls[i]), calls, i + 1)

\* Every operation leaves the context as its native calls make it.
NativeStep ==
    native' = IF native.followed THEN FollowCalls(native, nativeCalls', 1)
              ELSE native

----------------------------------------------------------------------------
\* Program (src/src/program.js)

\* Program.bind(): cache update and native calls.
ProgramBindOp(st, p) ==
    IF st.program # p
    THEN [st |-> [st EXCEPT !.program = p], calls |-> <<Call("useProgram", p, -1)>>]
    ELSE [st |-> st, calls |-> <<>>]

\* Program.restore(): unbinds itself, creates and links a new native program,
\* binds it and introspects it (a program without active uniforms here).
ProgramRestoreOp(st, p) ==
    LET un == IF st.program = p
              THEN [st |-> [st EXCEPT !.program = Null],
                    calls |-> <<Call("useProgram", Null, -1)>>]
              ELSE [st |-> st, calls |-> <<>>]
        b == ProgramBindOp(un.st, p)
    IN [st |-> b.st,
        calls |-> un.calls \o <<Call("createProgram", p, -1),
                                 Call("attachShader", p, -1),
                                 Call("attachShader", p, -1),
                                 Call("linkProgram", p, -1),
                                 Call("getProgramParameter", p, -1)>>
                  \o b.calls
                  \o <<Call("getProgramParameter", p, -1),
                       Call("getProgramParameter", p, -1)>>]

CreateProgram(p) ==
    /\ p \in Programs /\ CanCreate(p)
    /\ LET r == ProgramRestoreOp(appState, p) IN
        /\ appState' = r.st
        /\ nativeCalls' = r.calls
    /\ created' = created \cup {p}
    /\ handle' = [handle EXCEPT ![p] = TRUE]
    /\ lastOp' = Op("Program.constructor", p, -1)
    /\ UNCHANGED extVars
    /\ UNCHANGED <<deleted, currentUnit, currentBase, width, height, vaState,
                   angleBugBuffers, fbVars, ubVars>>
    /\ NativeStep

ProgramRestore(p) ==
    /\ p \in Programs /\ p \in created
    /\ LET r == ProgramRestoreOp(appState, p) IN
        /\ appState' = r.st
        /\ nativeCalls' = r.calls
    /\ handle' = [handle EXCEPT ![p] = TRUE]
    /\ lastOp' = Op("Program.restore", p, -1)
    /\ UNCHANGED extVars
    /\ UNCHANGED <<created, deleted, currentUnit, currentBase, width, height,
                   vaState, angleBugBuffers, fbVars, ubVars>>
    /\ NativeStep

ProgramBind(p) ==
    /\ p \in Programs /\ p \in created
    /\ LET r == ProgramBindOp(appState, p) IN
        /\ appState' = r.st
        /\ nativeCalls' = r.calls
    /\ lastOp' = Op("Program.bind", p, -1)
    /\ UNCHANGED extVars
    /\ UNCHANGED <<created, handle, deleted, currentUnit, currentBase, width,
                   height, vaState, angleBugBuffers, fbVars, ubVars>>
    /\ NativeStep

ProgramDelete(p) ==
    /\ p \in Programs /\ p \in created
    /\ IF handle[p]
       THEN /\ handle' = [handle EXCEPT ![p] = FALSE]
            /\ IF appState.program = p
               THEN /\ appState' = [appState EXCEPT !.program = Null]
                    /\ nativeCalls' = <<Call("deleteProgram", p, -1),
                                        Call("useProgram", Null, -1)>>
               ELSE /\ appState' = appState
                    /\ nativeCalls' = <<Call("deleteProgram", p, -1)>>
       ELSE /\ nativeCalls' = <<>>
            /\ UNCHANGED <<handle, appState>>
    /\ deleted' = deleted \cup {p}
    /\ lastOp' = Op("delete", p, -1)
    /\ UNCHANGED extVars
    /\ UNCHANGED <<created, currentUnit, currentBase, width, height, vaState,
                   angleBugBuffers, fbVars, ubVars>>
    /\ NativeStep

----------------------------------------------------------------------------
\* VertexArray (src/src/vertex-array.js), VertexBuffer (its effect on the cache)

\* VertexArray.bind()
VertexArrayBindOp(st, v) ==
    IF st.vertexArray # v
    THEN [st |-> [st EXCEPT !.vertexArray = v],
          calls |-> <<Call("bindVertexArray", v, -1)>>]
    ELSE [st |-> st, calls |-> <<>>]

\* The native handle is allocated lazily, by attributeBuffer / indexBuffer.
CreateVertexArray(v, numElements, numInstances) ==
    /\ v \in VertexArrays /\ CanCreate(v)
    /\ created' = created \cup {v}
    /\ handle' = [handle EXCEPT ![v] = FALSE]
    /\ vaState' = [vaState EXCEPT ![v] = [numElements |-> numElements,
                                          numInstances |-> numInstances,
                                          instanced |-> FALSE,
                                          indexed |-> FALSE,
                                          indexType |-> Null,
                                          given |-> <<numElements, numInstances>>]]
    /\ nativeCalls' = <<>>
    /\ lastOp' = Op("VertexArray.constructor", v, -1)
    /\ UNCHANGED extVars
    /\ UNCHANGED <<appState, deleted, currentUnit, currentBase, width, height,
                   angleBugBuffers, fbVars, ubVars>>
    /\ NativeStep

VertexArrayRestore(v) ==
    /\ v \in VertexArrays /\ v \in created
    /\ appState' = IF appState.vertexArray = v
                   THEN [appState EXCEPT !.vertexArray = Null] ELSE appState
    /\ nativeCalls' = IF handle[v] THEN <<Call("createVertexArray", v, -1)>> ELSE <<>>
    /\ lastOp' = Op("VertexArray.restore", v, -1)
    /\ UNCHANGED extVars
    /\ UNCHANGED <<created, handle, deleted, currentUnit, currentBase, width,
                   height, vaState, angleBugBuffers, fbVars, ubVars>>
    /\ NativeStep

VertexArrayBind(v) ==
    /\ v \in VertexArrays /\ v \in created
    /\ LET r == VertexArrayBindOp(appState, v) IN
        /\ appState' = r.st
        /\ nativeCalls' = r.calls
    /\ lastOp' = Op("VertexArray.bind", v, -1)
    /\ UNCHANGED extVars
    /\ UNCHANGED <<created, handle, deleted, currentUnit, currentBase, width,
                   height, vaState, angleBugBuffers, fbVars, ubVars>>
    /\ NativeStep

\* The count update of attributeBuffer() with the instance count treated as
\* the element count is: kept once it is set.
CountUpdateKeepFirst(va, numItems, instanced) ==
    [numElements |-> IF instanced \/ va.numElements # 0
                     THEN va.numElements ELSE numItems,
     numInstances |-> IF instanced /\ va.numInstances = 0
                      THEN numItems ELSE va.numInstances]

\* The count update at the end of attributeBuffer().
CountUpdate(va, numItems, instanced) ==
    [numElements |-> IF instanced \/ va.numElements # 0
                     THEN va.numElements ELSE numItems,
     numInstances |-> IF instanced THEN numItems ELSE va.numInstances]

\* VertexArray.attributeBuffer(attributeIndex, vertexBuffer, instanced, ...)
\* for a one-column vertex buffer holding numItems items.
AttributeBuffer(v, numItems, instanced) ==
    /\ v \in VertexArrays /\ v \in created
    /\ handle' = [handle EXCEPT ![v] = TRUE]
    /\ LET r == VertexArrayBindOp(appState, v) IN
        /\ appState' = r.st
        /\ nativeCalls' =
              (IF handle[v] THEN <<>> ELSE <<Call("createVertexArray", v, -1)>>)
              \o r.calls
              \o <<Call("bindBuffer", "ARRAY_BUFFER", -1),
                   Call("vertexAttribPointer", v, 0)>>
              \o (IF instanced THEN <<Call("vertexAttribDivisor", v, 1)>> ELSE <<>>)
              \o <<Call("enableVertexAttribArray", v, 0),
                   Call("bindBuffer", Null, -1)>>
    /\ vaState' = [vaState EXCEPT ![v] =
          [numElements |-> CountUpdate(@, numItems, instanced).numElements,
           numInstances |-> CountUpdate(@, numItems, instanced).numInstances,
           instanced |-> @.instanced \/ instanced,
           indexed |-> @.indexed,
           indexType |-> @.indexType,
           given |-> @.given]]
    /\ lastOp' = Op("VertexArray.attributeBuffer", v, numItems)
    /\ UNCHANGED extVars
    /\ UNCHANGED <<created, deleted, currentUnit, currentBase, width, height,
                   angleBugBuffers, fbVars, ubVars>>
    /\ NativeStep

\* VertexArray.indexBuffer(vertexBuffer)
IndexBuffer(v, numItems) ==
    /\ v \in VertexArrays /\ v \in created
    /\ handle' = [handle EXCEPT ![v] = TRUE]
    /\ LET r == VertexArrayBindOp(appState, v) IN
        /\ appState' = r.st
        /\ nativeCalls' =
              (IF handle[v] THEN <<>> ELSE <<Call("createVertexArray", v, -1)>>)
              \o r.calls
              \o <<Call("bindBuffer", "ELEMENT_ARRAY_BUFFER", -1)>>
    /\ vaState' = [vaState EXCEPT ![v].numElements = numItems * 3,
                                  ![v].indexType = "UNSIGNED_SHORT",
                                  ![v].indexed = TRUE]
    /\ lastOp' = Op("VertexArray.indexBuffer", v, -1)
    /\ UNCHANGED extVars
    /\ UNCHANGED <<created, deleted, currentUnit, currentBase, width, height,
                   angleBugBuffers, fbVars, ubVars>>
    /\ NativeStep

VertexArrayDelete(v) ==
    /\ v \in VertexArrays /\ v \in created
    /\ IF handle[v]
       THEN /\ handle' = [handle EXCEPT ![v] = FALSE]
            /\ IF appState.vertexArray = v
               THEN /\ appState' = [appState EXCEPT !.vertexArray = Null]
                    /\ nativeCalls' = <<Call("deleteVertexArray", v, -1),
                                        Call("bindVertexArray", Null, -1)>>
               ELSE /\ appState' = appState
                    /\ nativeCalls' = <<Call("deleteVertexArray", v, -1)>>
       ELSE /\ nativeCalls' = <<>>
            /\ UNCHANGED <<handle, appState>>
    /\ deleted' = deleted \cup {v}
    /\ lastOp' = Op("delete", v, -1)
    /\ UNCHANGED extVars
    /\ UNCHANGED <<created, currentUnit, currentBase, width, height, vaState,
                   angleBugBuffers, fbVars, ubVars>>
    /\ NativeStep

\* VertexBuffer.restore(data) (also run by the constructor) and
\* VertexBuffer.data(data): both unbind the cached vertex array first.
VertexBufferUpload(method, glCalls) ==
    /\ IF appState.vertexArray # Null
       THEN /\ appState' = [appState EXCEPT !.vertexArray = Null]
            /\ nativeCalls' = <<Call("bindVertexArray", Null, -1)>> \o glCalls
       ELSE /\ appState' = appState
            /\ nativeCalls' = glCalls
    /\ lastOp' = Op(method, Null, -1)
    /\ UNCHANGED extVars
    /\ UNCHANGED <<created, handle, deleted, currentUnit, currentBase, width,
                   height, vaState, angleBugBuffers, fbVars, ubVars>>
    /\ NativeStep

VertexBufferRestore ==
    VertexBufferUpload("VertexBuffer.restore",
        <<Call("createBuffer", "vb", -1), Call("bindBuffer", "vb", -1),
          Call("bufferData", "vb", -1), Call("bindBuffer", Null, -1)>>)

VertexBufferData ==
    VertexBufferUpload("VertexBuffer.data",
        <<Call("bindBuffer", "vb", -1), Call("bufferSubData", "vb", 0),
          Call("bindBuffer", Null, -1)>>)

----------------------------------------------------------------------------
\* TransformFeedback (src/src/picogl.js, second file in it)

\* TransformFeedback.bind(): also rebinds the registered feedback buffers.
TransformFeedbackBindOp(st, f, buffers) ==
    IF st.transformFeedback # f
    THEN [st |-> [st EXCEPT !.transformFeedback = f],
          calls |-> <<Call("bindTransformFeedback", f, -1)>> \o
                    [i \in 1 .. Len(buffers) |->
                        Call("bindBufferBase", buffers[i], i - 1)]]
    ELSE [st |-> st, calls |-> <<>>]

\* TransformFeedback.restore()
TransformFeedbackRestoreOp(st, f) ==
    [st |-> IF st.transformFeedback = f
            THEN [st EXCEPT !.transformFeedback = Null] ELSE st,
     calls |-> <<Call("createTransformFeedback", f, -1)>>]

CreateTransformFeedback(f) ==
    /\ f \in TransformFeedbacks /\ CanCreate(f)
    /\ LET r == TransformFeedbackRestoreOp(appState, f) IN
        /\ appState' = r.st
        /\ nativeCalls' = r.calls
    /\ created' = created \cup {f}
    /\ handle' = [handle EXCEPT ![f] = TRUE]
    /\ angleBugBuffers' = [angleBugBuffers EXCEPT ![f] = <<>>]
    /\ lastOp' = Op("TransformFeedback.constructor", f, -1)
    /\ UNCHANGED extVars
    /\ UNCHANGED <<deleted, currentUnit, currentBase, width, height, vaState,
                   fbVars, ubVars>>
    /\ NativeStep

TransformFeedbackRestore(f) ==
    /\ f \in TransformFeedbacks /\ f \in created
    /\ LET r == TransformFeedbackRestoreOp(appState, f) IN
        /\ appState' = r.st
        /\ nativeCalls' = r.calls
    /\ handle' = [handle EXCEPT ![f] = TRUE]
    /\ angleBugBuffers' = [angleBugBuffers EXCEPT ![f] = <<>>]
    /\ lastOp' = Op("TransformFeedback.restore", f, -1)
    /\ UNCHANGED extVars
    /\ UNCHANGED <<created, deleted, currentUnit, currentBase, width, height,
                   vaState, fbVars, ubVars>>
    /\ NativeStep

TransformFeedbackBind(f) ==
    /\ f \in TransformFeedbacks /\ f \in created
    /\ LET r == TransformFeedbackBindOp(appState, f, angleBugBuffers[f]) IN
        /\ appState' = r.st
        /\ nativeCalls' = r.calls
    /\ lastOp' = Op("TransformFeedback.bind", f, -1)
    /\ UNCHANGED extVars
    /\ UNCHANGED <<created, handle, deleted, currentUnit, currentBase, width,
                   height, vaState, angleBugBuffers, fbVars, ubVars>>
    /\ NativeStep

\* TransformFeedback.feedbackBuffer(index, buffer), index = Len(angleBugBuffers)
\* or an index already registered.
FeedbackBuffer(f, index) ==
    /\ f \in TransformFeedbacks /\ f \in created
    /\ index \in 0 .. Len(angleBugBuffers[f])
    /\ index < MaxFeedbackBuffers
    /\ LET r == TransformFeedbackBindOp(appState, f, angleBugBuffers[f]) IN
        /\ appState' = r.st
        /\ nativeCalls' = r.calls \o <<Call("bindTransformFeedback", f, -1),
                                        Call("bindBufferBase", "vb", index)>>
    /\ angleBugBuffers' = [angleBugBuffers EXCEPT ![f] =
          IF index < Len(@) THEN [@ EXCEPT ![index + 1] = "vb"]
                            ELSE Append(@, "vb")]
    /\ lastOp' = Op("TransformFeedback.feedbackBuffer", f, index)
    /\ UNCHANGED extVars
    /\ UNCHANGED <<created, handle, deleted, currentUnit, currentBase, width,
                   height, vaState, fbVars, ubVars>>
    /\ NativeStep

TransformFeedbackDelete(f) ==
    /\ f \in TransformFeedbacks /\ f \in created
    /\ IF handle[f]
       THEN /\ handle' = [handle EXCEPT ![f] = FALSE]
            /\ IF appState.transformFeedback = f
               THEN /\ appState' = [appState EXCEPT !.transformFeedback = Null]
                    /\ nativeCalls' = <<Call("deleteTransformFeedback", f, -1),
                                        Call("bindTransformFeedback", Null, -1)>>
               ELSE /\ appState' = appState
                    /\ nativeCalls' = <<Call("deleteTransformFeedback", f, -1)>>
       ELSE /\ nativeCalls' = <<>>
            /\ UNCHANGED <<handle, appState>>
    /\ deleted' = deleted \cup {f}
    /\ lastOp' = Op("delete", f, -1)
    /\ UNCHANGED extVars
    /\ UNCHANGED <<created, currentUnit, currentBase, width, height, vaState,
                   angleBugBuffers, fbVars, ubVars>>
    /\ NativeStep

----------------------------------------------------------------------------
\* Texture (src/unnamed/part_003) and Cubemap (src/src/cubemap.js)

\* The part of the state texture operations read and write.
TexHeap == [textures |-> appState.textures, currentUnit |-> currentUnit,
            handle |-> handle, width |-> width, height |-> height,
            calls |-> <<>>]

Max(a, b) == IF a > b THEN a ELSE b

\* Texture.bind(unit) that leaves the evicted texture's currentUnit as it was.
TextureBindOpStale(th, t, unit) ==
    LET currentTexture == th.textures[unit] IN
    IF currentTexture # t
    THEN LET tex1 == IF th.currentUnit[t] # -1
                     THEN [th.textures EXCEPT ![th.currentUnit[t]] = Null]
                     ELSE th.textures
         IN [th EXCEPT !.textures = [tex1 EXCEPT ![unit] = t],
                       !.currentUnit = [@ EXCEPT ![t] = unit],
                       !.calls = @ \o <<Call("activeTexture", Null, unit),
                                        Call("bindTexture", t, -1)>>]
    ELSE th

\* Texture.bind(unit) / Cubemap.bind(unit)
TextureBindOp(th, t, unit) ==
    LET currentTexture == th.textures[unit] IN
    IF currentTexture # t
    THEN LET cu1 == IF currentTexture # Null
                    THEN [th.currentUnit EXCEPT ![currentTexture] = -1]
                    ELSE th.currentUnit
             tex1 == IF cu1[t] # -1
                     THEN [th.textures EXCEPT ![cu1[t]] = Null]
                     ELSE th.textures
         IN [th EXCEPT !.textures = [tex1 EXCEPT ![unit] = t],
                       !.currentUnit = [cu1 EXCEPT ![t] = unit],
                       !.calls = @ \o <<Call("activeTexture", Null, unit),
                                        Call("bindTexture", t, -1)>>]
    ELSE th

\* Texture.resize(width, height) of a 2D texture (depth 0).
TextureResizeOp(th, t, w, h) ==
    IF th.handle[t] /\ w = th.width[t] /\ h = th.height[t]
    THEN th
    ELSE LET cleared == IF th.currentUnit[t] # -1
                        THEN [th.textures EXCEPT ![th.currentUnit[t]] = Null]
                        ELSE th.textures
             th1 == [th EXCEPT !.textures = cleared,
                               !.handle = [@ EXCEPT ![t] = TRUE],
                               !.calls = @ \o <<Call("deleteTexture", t, -1),
                                                Call("createTexture", t, -1)>>]
             th2 == TextureBindOp(th1, t, Max(th1.currentUnit[t], 0))
         IN [th2 EXCEPT !.width = [@ EXCEPT ![t] = w],
                        !.height = [@ EXCEPT ![t] = h],
                        !.calls = @ \o <<Call("texParameteri", t, 0),
                                         Call("texParameteri", t, 1),
                                         Call("texParameteri", t, 2),
                                         Call("texParameteri", t, 3),
                                         Call("texParameteri", t, 4),
                                         Call("texParameteri", t, 5),
                                         Call("texParameteri", t, 6),
                                         Call("pixelStorei", Null, 0),
                                         Call("pixelStorei", Null, 1),
                                         Call("texStorage2D", t, -1)>>]

\* Texture.data(image): one mip level, mipmap filtering off.
TextureDataOp(th, t) ==
    LET th1 == TextureBindOp(th, t, Max(th.currentUnit[t], 0))
    IN [th1 EXCEPT !.calls = @ \o <<Call("texSubImage2D", t, 0)>>]

\* A Texture.restore(image) that reallocates at one by one instead of the
\* recorded size.
TextureRestoreOpUnsized(th, t, image) ==
    LET th1 == TextureResizeOp([th EXCEPT !.handle = [@ EXCEPT ![t] = FALSE]],
                               t, 1, 1)
    IN IF image THEN TextureDataOp(th1, t) ELSE th1

\* Texture.restore(image)
TextureRestoreOp(th, t, image) ==
    LET th1 == TextureResizeOp([th EXCEPT !.handle = [@ EXCEPT ![t] = FALSE]],
                               t, th.width[t], th.height[t])
    IN IF image THEN TextureDataOp(th1, t) ELSE th1

\* Texture.delete()
TextureDeleteOp(th, t) ==
    IF th.handle[t]
    THEN LET th1 == [th EXCEPT !.handle = [@ EXCEPT ![t] = FALSE],
                               !.calls = @ \o <<Call("deleteTexture", t, -1)>>]
         IN IF th.currentUnit[t] # -1 /\ th.textures[th.currentUnit[t]] = t
            THEN [th1 EXCEPT !.textures = [@ EXCEPT ![th.currentUnit[t]] = Null],
                             !.currentUnit = [@ EXCEPT ![t] = -1]]
            ELSE th1
    ELSE th

\* Cubemap.restore(options); faces: options carries the six face images.
CubemapRestoreOp(th, c, faces) ==
    LET cleared == IF th.currentUnit[c] # -1
                   THEN [th.textures EXCEPT ![th.currentUnit[c]] = Null]
                   ELSE th.textures
        th1 == [th EXCEPT !.textures = cleared,
                          !.handle = [@ EXCEPT ![c] = TRUE],
                          !.calls = @ \o <<Call("createTexture", c, -1)>>]
        th2 == TextureBindOp(th1, c, 0)
    IN [th2 EXCEPT !.calls = @ \o <<Call("pixelStorei", Null, 0),
                                    Call("pixelStorei", Null, 1),
                                    Call("texParameteri", c, 0),
                                    Call("texParameteri", c, 1),
                                    Call("texParameteri", c, 2),
                                    Call("texParameteri", c, 3),
                                    Call("texParameteri", c, 4),
                                    Call("texParameteri", c, 5),
                                    Call("texStorage2D", c, -1)>>
                      \o (IF faces
                          THEN [i \in 1 .. 6 |-> Call("texSubImage2D", c, i - 1)]
                          ELSE <<>>)]

\* Cubemap.delete(): the slot write is not guarded; with currentUnit = -1 it
\* sets the array property "-1", which is no texture unit.
CubemapDeleteOp(th, c) ==
    IF th.handle[c]
    THEN [th EXCEPT !.handle = [@ EXCEPT ![c] = FALSE],
                    !.textures = IF th.currentUnit[c] # -1
                                 THEN [@ EXCEPT ![th.currentUnit[c]] = Null]
                                 ELSE @,
                    !.currentUnit = [@ EXCEPT ![c] = -1],
                    !.calls = @ \o <<Call("deleteTexture", c, -1)>>]
    ELSE th

\* Writes a texture heap back to the variables.
TexCommit(th) ==
    /\ appState' = [appState EXCEPT !.textures = th.textures]
    /\ currentUnit' = th.currentUnit
    /\ handle' = th.handle
    /\ width' = th.width
    /\ height' = th.height

\* App.createTexture2D(image, width, height)
CreateTexture(t, w, h, image) ==
    /\ t \in Textures /\ CanCreate(t)
    /\ LET th == TextureRestoreOp([TexHeap EXCEPT !.width = [@ EXCEPT ![t] = w],
                                                  !.height = [@ EXCEPT ![t] = h]],
                                  t, image) IN
        /\ TexCommit(th)
        /\ nativeCalls' = th.calls
    /\ created' = created \cup {t}
    /\ lastOp' = Op("Texture.constructor", t, -1)
    /\ UNCHANGED extVars
    /\ UNCHANGED <<deleted, currentBase, vaState, angleBugBuffers, fbVars, ubVars>>
    /\ NativeStep

TextureRestore(t, image) ==
    /\ t \in Textures /\ t \in created
    /\ LET th == TextureRestoreOp(TexHeap, t, image) IN
        /\ TexCommit(th)
        /\ nativeCalls' = th.calls
    /\ lastOp' = Op("Texture.restore", t, IF image THEN 1 ELSE 0)
    /\ UNCHANGED extVars
    /\ UNCHANGED <<created, deleted, currentBase, vaState, angleBugBuffers,
                   fbVars, ubVars>>
    /\ NativeStep

TextureResize(t, w, h) ==
    /\ t \in Textures /\ t \in created
    /\ LET th == TextureResizeOp(TexHeap, t, w, h) IN
        /\ TexCommit(th)
        /\ nativeCalls' = th.calls
    /\ lastOp' = Op("Texture.resize", t, -1)
    /\ UNCHANGED extVars
    /\ UNCHANGED <<created, deleted, currentBase, vaState, angleBugBuffers,
                   fbVars, ubVars>>
    /\ NativeStep

TextureData(t) ==
    /\ t \in Textures /\ t \in created
    /\ LET th == TextureDataOp(TexHeap, t) IN
        /\ TexCommit(th)
        /\ nativeCalls' = th.calls
    /\ lastOp' = Op("Texture.data", t, -1)
    /\ UNCHANGED extVars
    /\ UNCHANGED <<created, deleted, currentBase, vaState, angleBugBuffers,
                   fbVars, ubVars>>
    /\ NativeStep

TextureBind(t, unit) ==
    /\ t \in Textures /\ t \in created /\ unit \in Units
    /\ LET th == TextureBindOp(TexHeap, t, unit) IN
        /\ TexCommit(th)
        /\ nativeCalls' = th.calls
    /\ lastOp' = Op("Texture.bind", t, unit)
    /\ UNCHANGED extVars
    /\ UNCHANGED <<created, deleted, currentBase, vaState, angleBugBuffers,
                   fbVars, ubVars>>
    /\ NativeStep

TextureDelete(t) ==
    /\ t \in Textures /\ t \in created
    /\ LET th == TextureDeleteOp(TexHeap, t) IN
        /\ TexCommit(th)
        /\ nativeCalls' = th.calls
    /\ deleted' = deleted \cup {t}
    /\ lastOp' = Op("delete", t, -1)
    /\ UNCHANGED extVars
    /\ UNCHANGED <<created, currentBase, vaState, angleBugBuffers, fbVars, ubVars>>
    /\ NativeStep

\* App.createCubemap(options)
CreateCubemap(c, w, h, faces) ==
    /\ c \in Cubemaps /\ CanCreate(c)
    /\ LET th == CubemapRestoreOp([TexHeap EXCEPT !.width = [@ EXCEPT ![c] = w],
                                                  !.height = [@ EXCEPT ![c] = h]],
                                  c, faces) IN
        /\ TexCommit(th)
        /\ nativeCalls' = th.calls
    /\ created' = created \cup {c}
    /\ lastOp' = Op("Cubemap.constructor", c, -1)
    /\ UNCHANGED extVars
    /\ UNCHANGED <<deleted, currentBase, vaState, angleBugBuffers, fbVars, ubVars>>
    /\ NativeStep

CubemapRestore(c, faces) ==
    /\ c \in Cubemaps /\ c \in created
    /\ LET th == CubemapRestoreOp(TexHeap, c, faces) IN
        /\ TexCommit(th)
        /\ nativeCalls' = th.calls
    /\ lastOp' = Op("Cubemap.restore", c, -1)
    /\ UNCHANGED extVars
    /\ UNCHANGED <<created, deleted, currentBase, vaState, angleBugBuffers,
                   fbVars, ubVars>>
    /\ NativeStep

CubemapBind(c, unit) ==
    /\ c \in Cubemaps /\ c \in created /\ unit \in Units
    /\ LET th == TextureBindOp(TexHeap, c, unit) IN
        /\ TexCommit(th)
        /\ nativeCalls' = th.calls
    /\ lastOp' = Op("Cubemap.bind", c, unit)
    /\ UNCHANGED extVars
    /\ UNCHANGED <<created, deleted, currentBase, vaState, angleBugBuffers,
                   fbVars, ubVars>>
    /\ NativeStep

CubemapDelete(c) ==
    /\ c \in Cubemaps /\ c \in created
    /\ LET th == CubemapDeleteOp(TexHeap, c) IN
        /\ TexCommit(th)
        /\ nativeCalls' = th.calls
    /\ deleted' = deleted \cup {c}
    /\ lastOp' = Op("delete", c, -1)
    /\ UNCHANGED extVars
    /\ UNCHANGED <<created, currentBase, vaState, angleBugBuffers, fbVars, ubVars>>
    /\ NativeStep

----------------------------------------------------------------------------
\* Framebuffer (src/unnamed/part_002) and the App framebuffer switches
\* (src/src/timer.js)

\* Framebuffer.bindAndCaptureState(): native calls only; returns the captured
\* framebuffer in cur.
BindAndCaptureState(st, fb) ==
    [cur |-> st.drawFramebuffer,
     calls |-> IF st.drawFramebuffer # fb
               THEN <<Upload("bindFramebuffer", fb, -1, <<"DRAW_FRAMEBUFFER">>)>>
               ELSE <<>>]

\* Framebuffer.restoreState(framebuffer)
RestoreState(fb, framebuffer) ==
    IF framebuffer # fb
    THEN <<Upload("bindFramebuffer", framebuffer, -1, <<"DRAW_FRAMEBUFFER">>)>>
    ELSE <<>>

\* Framebuffer.restore()
FramebufferRestoreOp(st, fb) ==
    LET st1 == IF st.drawFramebuffer = fb
               THEN [st EXCEPT !.drawFramebuffer = Null] ELSE st
    IN IF st1.readFramebuffer = fb
       THEN [st1 EXCEPT !.readFramebuffer = Null] ELSE st1

CreateFramebuffer(fb) ==
    /\ fb \in Framebuffers /\ CanCreate(fb)
    /\ appState' = FramebufferRestoreOp(appState, fb)
    /\ nativeCalls' = <<Call("createFramebuffer", fb, -1)>>
    /\ created' = created \cup {fb}
    /\ handle' = [handle EXCEPT ![fb] = TRUE]
    /\ colorAttachments' = [colorAttachments EXCEPT ![fb] = <<>>]
    /\ colorAttachmentEnums' = [colorAttachmentEnums EXCEPT ![fb] = <<>>]
    /\ colorAttachmentTargets' = [colorAttachmentTargets EXCEPT ![fb] = <<>>]
    /\ depthAttachment' = [depthAttachment EXCEPT ![fb] = Null]
    /\ fbSize' = [fbSize EXCEPT ![fb] = <<0, 0>>]
    /\ lastOp' = Op("Framebuffer.constructor", fb, -1)
    /\ UNCHANGED extVars
    /\ UNCHANGED <<deleted, currentUnit, currentBase, width, height, vaState,
                   angleBugBuffers, ubVars>>
    /\ NativeStep

FramebufferRestore(fb) ==
    /\ fb \in Framebuffers /\ fb \in created
    /\ appState' = FramebufferRestoreOp(appState, fb)
    /\ nativeCalls' = <<Call("createFramebuffer", fb, -1)>>
    /\ handle' = [handle EXCEPT ![fb] = TRUE]
    /\ lastOp' = Op("Framebuffer.restore", fb, -1)
    /\ UNCHANGED extVars
    /\ UNCHANGED <<created, deleted, currentUnit, currentBase, width, height,
                   vaState, angleBugBuffers, fbVars, ubVars>>
    /\ NativeStep

BindForDraw(fb) ==
    /\ fb \in Framebuffers /\ fb \in created
    /\ IF appState.drawFramebuffer # fb
       THEN /\ appState' = [appState EXCEPT !.drawFramebuffer = fb]
            /\ nativeCalls' = <<Upload("bindFramebuffer", fb, -1,
                                    <<"DRAW_FRAMEBUFFER">>)>>
       ELSE /\ appState' = appState
            /\ nativeCalls' = <<>>
    /\ lastOp' = Op("Framebuffer.bindForDraw", fb, -1)
    /\ UNCHANGED extVars
    /\ UNCHANGED <<created, handle, deleted, currentUnit, currentBase, width,
                   height, vaState, angleBugBuffers, fbVars, ubVars>>
    /\ NativeStep

BindForRead(fb) ==
    /\ fb \in Framebuffers /\ fb \in created
    /\ IF appState.readFramebuffer # fb
       THEN /\ appState' = [appState EXCEPT !.readFramebuffer = fb]
            /\ nativeCalls' = <<Upload("bindFramebuffer", fb, -1,
                                    <<"READ_FRAMEBUFFER">>)>>
       ELSE /\ appState' = appState
            /\ nativeCalls' = <<>>
    /\ lastOp' = Op("Framebuffer.bindForRead", fb, -1)
    /\ UNCHANGED extVars
    /\ UNCHANGED <<created, handle, deleted, currentUnit, currentBase, width,
                   height, vaState, angleBugBuffers, fbVars, ubVars>>
    /\ NativeStep

FramebufferDelete(fb) ==
    /\ fb \in Framebuffers /\ fb \in created
    /\ IF handle[fb]
       THEN /\ handle' = [handle EXCEPT ![fb] = FALSE]
            /\ appState' = FramebufferRestoreOp(appState, fb)
            /\ nativeCalls' =
                  <<Call("deleteFramebuffer", fb, -1)>>
                  \o (IF appState.drawFramebuffer = fb
                      THEN <<Upload("bindFramebuffer", Null, -1,
                                    <<"DRAW_FRAMEBUFFER">>)>> ELSE <<>>)
                  \o (IF appState.readFramebuffer = fb
                      THEN <<Upload("bindFramebuffer", Null, -1,
                                    <<"READ_FRAMEBUFFER">>)>> ELSE <<>>)
       ELSE /\ nativeCalls' = <<>>
            /\ UNCHANGED <<handle, appState>>
    /\ deleted' = deleted \cup {fb}
    /\ lastOp' = Op("delete", fb, -1)
    /\ UNCHANGED extVars
    /\ UNCHANGED <<created, currentUnit, currentBase, width, height, vaState,
                   angleBugBuffers, fbVars, ubVars>>
    /\ NativeStep

\* App.defaultDrawFramebuffer()
DefaultDrawFramebuffer ==
    /\ IF appState.drawFramebuffer # Null
       THEN /\ appState' = [appState EXCEPT !.drawFramebuffer = Null]
            /\ nativeCalls' = <<Upload("bindFramebuffer", Null, -1,
                                    <<"DRAW_FRAMEBUFFER">>)>>
       ELSE /\ appState' = appState
            /\ nativeCalls' = <<>>
    /\ lastOp' = Op("App.defaultDrawFramebuffer", Null, -1)
    /\ UNCHANGED extVars
    /\ UNCHANGED <<created, handle, deleted, currentUnit, currentBase, width,
                   height, vaState, angleBugBuffers, fbVars, ubVars>>
    /\ NativeStep

\* App.defaultReadFramebuffer()
DefaultReadFramebuffer ==
    /\ IF appState.readFramebuffer # Null
       THEN /\ appState' = [appState EXCEPT !.readFramebuffer = Null]
            /\ nativeCalls' = <<Upload("bindFramebuffer", Null, -1,
                                    <<"READ_FRAMEBUFFER">>)>>
       ELSE /\ appState' = appState
            /\ nativeCalls' = <<>>
    /\ lastOp' = Op("App.defaultReadFramebuffer", Null, -1)
    /\ UNCHANGED extVars
    /\ UNCHANGED <<created, handle, deleted, currentUnit, currentBase, width,
                   height, vaState, angleBugBuffers, fbVars, ubVars>>
    /\ NativeStep

\* The native attach call for an attachment (texture or cubemap face).
AttachCall(att, point) == Call("framebufferTexture2D", att, point)

\* GL enums Framebuffer.colorTarget() stores, and the default target of a
\* two-dimensional attachment.
NONE == 0
COLOR_ATTACHMENT0 == 36064
TEXTURE_2D == 3553

\* The length assignment of colorTarget() without the loop that fills the gap.
GrowUnfilled(seq, numColorTargets, index, filler) ==
    IF index >= numColorTargets
    THEN [i \in 1 .. (index + 1) |->
            IF i <= numColorTargets THEN seq[i] ELSE Undefined]
    ELSE seq

\* The length assignment and gap loop of colorTarget(): seq cut or extended to
\* index + 1 slots, the slots from numColorTargets up to index - 1 set to
\* filler; the slot at index is left for the caller to assign.
Grow(seq, numColorTargets, index, filler) ==
    IF index >= numColorTargets
    THEN [i \in 1 .. (index + 1) |->
            IF i <= numColorTargets THEN seq[i] ELSE filler]
    ELSE seq

\* Framebuffer.colorTarget(index, attachment)
ColorTarget(fb, index, att) ==
    /\ fb \in Framebuffers /\ fb \in created
    /\ att \in Samplable /\ att \in created
    /\ index \in 0 .. (MaxColorTargets - 1)
    /\ LET n == Len(colorAttachments[fb])
           enums == [Grow(colorAttachmentEnums[fb], n, index, NONE)
                        EXCEPT ![index + 1] = COLOR_ATTACHMENT0 + index]
           cap == BindAndCaptureState(appState, fb)
       IN /\ colorAttachments' = [colorAttachments EXCEPT ![fb] =
                [Grow(colorAttachments[fb], n, index, Null)
                    EXCEPT ![index + 1] = att]]
          /\ colorAttachmentEnums' = [colorAttachmentEnums EXCEPT ![fb] = enums]
          /\ colorAttachmentTargets' = [colorAttachmentTargets EXCEPT ![fb] =
                [Grow(colorAttachmentTargets[fb], n, index, 0)
                    EXCEPT ![index + 1] = TEXTURE_2D]]
          /\ nativeCalls' = cap.calls
                \o <<AttachCall(att, index),
                     Upload("drawBuffers", fb, Len(enums), enums)>>
                \o RestoreState(fb, cap.cur)
    /\ fbSize' = [fbSize EXCEPT ![fb] = <<width[att], height[att]>>]
    /\ lastOp' = Op("Framebuffer.colorTarget", fb, index)
    /\ UNCHANGED extVars
    /\ UNCHANGED <<appState, created, handle, deleted, currentUnit, currentBase,
                   width, height, vaState, angleBugBuffers, depthAttachment, ubVars>>
    /\ NativeStep

\* Framebuffer.depthTarget(attachment)
DepthTarget(fb, att) ==
    /\ fb \in Framebuffers /\ fb \in created
    /\ att \in Samplable /\ att \in created
    /\ LET cap == BindAndCaptureState(appState, fb) IN
          nativeCalls' = cap.calls \o <<AttachCall(att, -1)>>
                         \o RestoreState(fb, cap.cur)
    /\ depthAttachment' = [depthAttachment EXCEPT ![fb] = att]
    /\ fbSize' = [fbSize EXCEPT ![fb] = <<width[att], height[att]>>]
    /\ lastOp' = Op("Framebuffer.depthTarget", fb, -1)
    /\ UNCHANGED extVars
    /\ UNCHANGED <<appState, created, handle, deleted, currentUnit, currentBase,
                   width, height, vaState, angleBugBuffers, colorAttachments,
                   colorAttachmentEnums, colorAttachmentTargets, ubVars>>
    /\ NativeStep

\* The attachment loop of Framebuffer.resize(): each non-null attachment is
\* told to resize; a Texture is then reattached.  A Cubemap has no resize
\* method, so the call throws and the rest of resize() does not run
\* (thrown).  atts pairs each attachment with its attachment point.
RECURSIVE ResizeAttachments(_, _, _, _)
ResizeAttachments(atts, th, w, h) ==
    IF atts = <<>> \/ th.thrown THEN th
    ELSE LET att == Head(atts)[1]
             point == Head(atts)[2]
         IN IF att = Null THEN ResizeAttachments(Tail(atts), th, w, h)
            ELSE IF att \in Cubemaps THEN [th EXCEPT !.thrown = TRUE]
            ELSE LET th1 == TextureResizeOp(th, att, w, h)
                 IN ResizeAttachments(Tail(atts),
                        [th1 EXCEPT !.calls = @ \o <<AttachCall(att, point)>>],
                        w, h)

\* Framebuffer.resize(width, height)
FramebufferResize(fb, w, h) ==
    /\ fb \in Framebuffers /\ fb \in created
    /\ LET cap == BindAndCaptureState(appState, fb)
           atts == [i \in 1 .. Len(colorAttachments[fb]) |->
                      <<colorAttachments[fb][i], i - 1>>]
                   \o <<<<depthAttachment[fb], -1>>>>
           th0 == [textures |-> appState.textures, currentUnit |-> currentUnit,
                   handle |-> handle, width |-> width, height |-> height,
                   calls |-> cap.calls, thrown |-> FALSE]
           th == ResizeAttachments(atts, th0, w, h)
       IN /\ TexCommit(th)
          /\ IF th.thrown
             THEN /\ nativeCalls' = th.calls
                  /\ fbSize' = fbSize
             ELSE /\ nativeCalls' = th.calls \o RestoreState(fb, cap.cur)
                  /\ fbSize' = [fbSize EXCEPT ![fb] = <<w, h>>]
    /\ lastOp' = Op("Framebuffer.resize", fb, -1)
    /\ UNCHANGED extVars
    /\ UNCHANGED <<created, deleted, currentBase, vaState, angleBugBuffers,
                   colorAttachments, colorAttachmentEnums,
                   colorAttachmentTargets, depthAttachment, ubVars>>
    /\ NativeStep

\* Framebuffer.getStatus()
GetStatus(fb) ==
    /\ fb \in Framebuffers /\ fb \in created
    /\ LET cap == BindAndCaptureState(appState, fb) IN
          nativeCalls' = cap.calls \o <<Call("checkFramebufferStatus", fb, -1)>>
                         \o RestoreState(fb, cap.cur)
    /\ lastOp' = Op("Framebuffer.getStatus", fb, -1)
    /\ UNCHANGED extVars
    /\ UNCHANGED <<cacheVars, ubVars>>
    /\ UNCHANGED <<queryVars, miscVars>>
    /\ NativeStep

----------------------------------------------------------------------------
\* UniformBuffer (src/unnamed/part_002)

Scalars == {"FLOAT", "INT", "UNSIGNED_INT", "BOOL"}
Vec2s == {"FLOAT_VEC2", "INT_VEC2", "UNSIGNED_INT_VEC2", "BOOL_VEC2"}
Vec3s == {"FLOAT_VEC3", "INT_VEC3", "UNSIGNED_INT_VEC3", "BOOL_VEC3"}
Vec4s == {"FLOAT_VEC4", "INT_VEC4", "UNSIGNED_INT_VEC4", "BOOL_VEC4"}
Mat2s == {"FLOAT_MAT2", "FLOAT_MAT2x3", "FLOAT_MAT2x4"}
Mat3s == {"FLOAT_MAT3", "FLOAT_MAT3x2", "FLOAT_MAT3x4"}
Mat4s == {"FLOAT_MAT4", "FLOAT_MAT4x2", "FLOAT_MAT4x3"}
SupportedTypes == Scalars \cup Vec2s \cup Vec3s \cup Vec4s
                    \cup Mat2s \cup Mat3s \cup Mat4s
\* A type tag the constructor's switch does not list.
UnsupportedTypes == {"SAMPLER_2D"}
TypeTags == SupportedTypes \cup UnsupportedTypes

UndefinedType == "undefined"

\* UniformBuffer has no field named type: this.type reads undefined.
ThisType == UndefinedType

\* The base type the constructor records: it tests the layout entry for INT
\* and this.type for UNSIGNED_INT.
RecordedType(type, intTags, uintTags) ==
    IF type \in intTags THEN "INT"
    ELSE IF ThisType \in uintTags THEN "UNSIGNED_INT"
    ELSE "FLOAT"

\* No padding before a 2-component vector.
PadTo2None(sz) == sz

\* Padding the constructor adds before an entry of the given case.
PadTo2(sz) == sz + (sz % 2)
PadTo4(sz) == sz + ((4 - (sz % 4)) % 4)

\* One iteration of the constructor's loop: acc is (size, offsets, sizes,
\* types) and the number of reports written; the default case reports and
\* assigns nothing.
LayoutEntry(acc, type) ==
    LET Place(at, n, ty) ==
            [size |-> at + n,
             offsets |-> Append(acc.offsets, at),
             sizes |-> Append(acc.sizes, n),
             types |-> Append(acc.types, ty),
             errors |-> acc.errors]
    IN CASE type \in Scalars ->
              Place(acc.size, 1, RecordedType(type, {"INT"}, {"UNSIGNED_INT"}))
         [] type \in Vec2s ->
              Place(PadTo2(acc.size), 2,
                    RecordedType(type, {"INT_VEC2"}, {"UNSIGNED_INT_VEC2"}))
         [] type \in Vec3s \cup Vec4s ->
              Place(PadTo4(acc.size), 4,
                    RecordedType(type, {"INT_VEC4", "INT_VEC3"},
                                 {"UNSIGNED_INT_VEC4", "UNSIGNED_INT_VEC3"}))
         [] type \in Mat2s -> Place(PadTo4(acc.size), 8, "FLOAT")
         [] type \in Mat3s -> Place(PadTo4(acc.size), 12, "FLOAT")
         [] type \in Mat4s -> Place(PadTo4(acc.size), 16, "FLOAT")
         [] OTHER ->
              [size |-> acc.size,
               offsets |-> Append(acc.offsets, Undefined),
               sizes |-> Append(acc.sizes, Undefined),
               types |-> Append(acc.types, UndefinedType),
               errors |-> acc.errors + 1]

RECURSIVE LayoutLoop(_, _)
LayoutLoop(lay, acc) ==
    IF lay = <<>> THEN acc ELSE LayoutLoop(Tail(lay), LayoutEntry(acc, Head(lay)))

\* The constructor's layout computation, with the final padding.
ComputeLayout(lay) ==
    LET acc == LayoutLoop(lay, [size |-> 0, offsets |-> <<>>, sizes |-> <<>>,
                                types |-> <<>>, errors |-> 0])
    IN [acc EXCEPT !.size = PadTo4(acc.size)]

Zeros(n) == [i \in 1 .. n |-> 0]
\* No upload has covered the word yet.
None == Undefined

\* UniformBuffer.restore(): a new native buffer of size * 4 zeroed bytes.
UniformBufferRestoreOp(st, u) ==
    IF currentBase[u] # -1 /\ st.uniformBuffers[currentBase[u]] = u
    THEN [st EXCEPT !.uniformBuffers = [@ EXCEPT ![currentBase[u]] = Null]]
    ELSE st

RestoreCalls(u, sz) ==
    <<Call("createBuffer", u, -1), Call("bindBuffer", u, -1),
      Call("bufferData", u, sz * 4), Call("bindBuffer", Null, -1)>>

\* new UniformBuffer(gl, appState, layout)
CreateUniformBuffer(u, lay) ==
    /\ u \in UniformBuffers /\ CanCreate(u)
    /\ LET l == ComputeLayout(lay) IN
        /\ layout' = [layout EXCEPT ![u] = lay]
        /\ offsets' = [offsets EXCEPT ![u] = l.offsets]
        /\ sizes' = [sizes EXCEPT ![u] = l.sizes]
        /\ types' = [types EXCEPT ![u] = l.types]
        /\ size' = [size EXCEPT ![u] = l.size]
        /\ data' = [data EXCEPT ![u] = Zeros(l.size)]
        /\ deviceData' = [deviceData EXCEPT ![u] = Zeros(l.size)]
        /\ uploaded' = [uploaded EXCEPT ![u] = [i \in 1 .. l.size |-> None]]
        /\ nativeCalls' = RestoreCalls(u, l.size)
        /\ result' = IF l.errors = 0 THEN result
                     ELSE [raised |-> FALSE, errors |-> l.errors]
    /\ created' = created \cup {u}
    /\ handle' = [handle EXCEPT ![u] = TRUE]
    /\ currentBase' = [currentBase EXCEPT ![u] = -1]
    /\ lastOp' = Op("UniformBuffer.constructor", u, -1)
    /\ UNCHANGED <<programInfo, drawCall, staged, queryVars, miscVars>>
    /\ UNCHANGED <<appState, deleted, currentUnit, width, height, vaState,
                   angleBugBuffers, fbVars>>
    /\ NativeStep

UniformBufferRestore(u) ==
    /\ u \in UniformBuffers /\ u \in created
    /\ appState' = UniformBufferRestoreOp(appState, u)
    /\ handle' = [handle EXCEPT ![u] = TRUE]
    /\ deviceData' = [deviceData EXCEPT ![u] = Zeros(size[u])]
    /\ uploaded' = [uploaded EXCEPT ![u] = [i \in 1 .. size[u] |-> None]]
    /\ nativeCalls' = RestoreCalls(u, size[u])
    /\ lastOp' = Op("UniformBuffer.restore", u, -1)
    /\ UNCHANGED extVars
    /\ UNCHANGED <<created, deleted, currentUnit, currentBase, width, height,
                   vaState, angleBugBuffers, fbVars, layout, offsets, sizes,
                   types, size, data>>
    /\ NativeStep

\* UniformBuffer.bind(base) without the test of the cache slot.
UniformBufferBindOpUnguarded(st, cb, u, base) ==
    LET currentBuffer == st.uniformBuffers[base]
        cb1 == IF currentBuffer # Null /\ currentBuffer # u
               THEN [cb EXCEPT ![currentBuffer] = -1] ELSE cb
        ub1 == IF cb1[u] # -1
               THEN [st.uniformBuffers EXCEPT ![cb1[u]] = Null]
               ELSE st.uniformBuffers
    IN [st |-> [st EXCEPT !.uniformBuffers = [ub1 EXCEPT ![base] = u]],
        cb |-> [cb1 EXCEPT ![u] = base],
        calls |-> <<Call("bindBufferBase", u, base)>>]

\* UniformBuffer.bind(base)
UniformBufferBindOp(st, cb, u, base) ==
    LET currentBuffer == st.uniformBuffers[base] IN
    IF currentBuffer # u
    THEN LET cb1 == IF currentBuffer # Null
                    THEN [cb EXCEPT ![currentBuffer] = -1] ELSE cb
             ub1 == IF cb1[u] # -1
                    THEN [st.uniformBuffers EXCEPT ![cb1[u]] = Null]
                    ELSE st.uniformBuffers
         IN [st |-> [st EXCEPT !.uniformBuffers = [ub1 EXCEPT ![base] = u]],
             cb |-> [cb1 EXCEPT ![u] = base],
             calls |-> <<Call("bindBufferBase", u, base)>>]
    ELSE [st |-> st, cb |-> cb, calls |-> <<>>]

UniformBufferBind(u, base) ==
    /\ u \in UniformBuffers /\ u \in created /\ base \in Bases
    /\ LET r == UniformBufferBindOp(appState, currentBase, u, base) IN
        /\ appState' = r.st
        /\ currentBase' = r.cb
        /\ nativeCalls' = r.calls
    /\ lastOp' = Op("UniformBuffer.bind", u, base)
    /\ UNCHANGED extVars
    /\ UNCHANGED <<created, handle, deleted, currentUnit, width, height, vaState,
                   angleBugBuffers, fbVars, ubVars>>
    /\ NativeStep

\* UniformBuffer.delete()
UniformBufferDeleteOp(st, u) ==
    IF currentBase[u] # -1 /\ st.uniformBuffers[currentBase[u]] = u
    THEN [st EXCEPT !.uniformBuffers = [@ EXCEPT ![currentBase[u]] = Null]]
    ELSE st

UniformBufferDelete(u) ==
    /\ u \in UniformBuffers /\ u \in created
    /\ IF handle[u]
       THEN /\ handle' = [handle EXCEPT ![u] = FALSE]
            /\ appState' = UniformBufferDeleteOp(appState, u)
            /\ nativeCalls' = <<Call("deleteBuffer", u, -1)>>
       ELSE /\ nativeCalls' = <<>>
            /\ UNCHANGED <<handle, appState>>
    /\ deleted' = deleted \cup {u}
    /\ lastOp' = Op("delete", u, -1)
    /\ UNCHANGED extVars
    /\ UNCHANGED <<created, currentUnit, currentBase, width, height, vaState,
                   angleBugBuffers, fbVars, ubVars>>
    /\ NativeStep

\* Bit patterns of the 32-bit words the typed views store (Float32Array,
\* Int32Array and Uint32Array over one ArrayBuffer).  A word is named by the
\* Int32 reading of its bits; the values stored here are below 2^31, where
\* the Int32 and Uint32 readings agree.
FloatBits(v) ==
    CASE v = 0 -> 0
      [] v = 1 -> 1065353216
      [] v = 2 -> 1073741824
      [] v = 3 -> 1077936128
      [] OTHER -> 1065353216 + v
IntBits(v) == v

\* view[i] = v through this.dataViews[type]
ViewBits(type, v) == IF type = "FLOAT" THEN FloatBits(v) ELSE IntBits(v)

\* UniformBuffer.set(index, value): value is a number for a one-word entry
\* and an array otherwise (a one-element sequence stands for the number).
UniformBufferSetOp(u, index, value) ==
    LET at == offsets[u][index + 1]
        ty == types[u][index + 1]
    IN [i \in 1 .. size[u] |->
          IF i - 1 >= at /\ i - 1 < at + Len(value)
          THEN ViewBits(ty, value[i - at])
          ELSE data[u][i]]

UniformBufferSet(u, index, value) ==
    /\ u \in UniformBuffers /\ u \in created
    /\ index \in 0 .. (Len(layout[u]) - 1)
    /\ layout[u][index + 1] \in SupportedTypes
    /\ data' = [data EXCEPT ![u] = UniformBufferSetOp(u, index, value)]
    /\ nativeCalls' = <<>>
    /\ lastOp' = Op("UniformBuffer.set", u, index)
    /\ UNCHANGED extVars
    /\ UNCHANGED <<cacheVars, layout, offsets, sizes, types, size, deviceData,
                   uploaded>>
    /\ NativeStep

\* gl.bufferSubData(UNIFORM_BUFFER, offset, words) on the buffer bound to
\* UNIFORM_BUFFER; with no buffer bound the call fails and writes nothing.
BufferSubData(dev, bound, offset, words) ==
    IF bound
    THEN [i \in 1 .. Len(dev) |->
            IF (i - 1) * 4 >= offset /\ (i - 1) * 4 < offset + 4 * Len(words)
            THEN words[i - (offset \div 4)]
            ELSE dev[i]]
    ELSE dev

\* update(index) that tests the index for falsiness: update(0) uploads the
\* whole store.
UpdateRangeFalsy(u, index) ==
    IF index = Undefined \/ index = 0
    THEN [offset |-> 0, words |-> data[u]]
    ELSE LET begin == offsets[u][index + 1]
             end == begin + sizes[u][index + 1]
         IN [offset |-> begin * 4, words |-> SubSeq(data[u], begin + 1, end)]

\* update(index) that takes the payload from the start of the store.
UpdateRangeFromStart(u, index) ==
    IF index = Undefined
    THEN [offset |-> 0, words |-> data[u]]
    ELSE LET begin == offsets[u][index + 1]
         IN [offset |-> begin * 4, words |-> SubSeq(data[u], 1, sizes[u][index + 1])]

\* UniformBuffer.update(index): the uploaded range; index = Undefined stands
\* for the omitted argument.
UpdateRange(u, index) ==
    IF index = Undefined
    THEN [offset |-> 0, words |-> data[u]]
    ELSE LET begin == offsets[u][index + 1]
             end == begin + sizes[u][index + 1]
         IN [offset |-> begin * 4, words |-> SubSeq(data[u], begin + 1, end)]

UniformBufferUpdate(u, index) ==
    /\ u \in UniformBuffers /\ u \in created
    /\ \/ index = Undefined
       \/ /\ index \in 0 .. (Len(layout[u]) - 1)
          /\ layout[u][index + 1] \in SupportedTypes
    /\ LET r == UpdateRange(u, index) IN
        /\ deviceData' = [deviceData EXCEPT ![u] =
                             BufferSubData(@, handle[u], r.offset, r.words)]
        /\ uploaded' = [uploaded EXCEPT ![u] =
              IF handle[u]
              THEN [i \in 1 .. size[u] |->
                      IF index = Undefined
                         \/ (i - 1 >= offsets[u][index + 1]
                             /\ i - 1 < offsets[u][index + 1] + sizes[u][index + 1])
                      THEN data[u][i] ELSE @[i]]
              ELSE @]
        /\ nativeCalls' = <<Call("bindBuffer", u, -1),
                            Upload("bufferSubData", u, r.offset, r.words),
                            Call("bindBuffer", Null, -1)>>
    /\ lastOp' = Op("UniformBuffer.update", u, index)
    /\ UNCHANGED extVars
    /\ UNCHANGED <<cacheVars, layout, offsets, sizes, types, size, data>>
    /\ NativeStep

----------------------------------------------------------------------------
\* DrawCall (src/src/draw-call.js)

\* The native draw submission DrawCall.draw() selects for its vertex array:
\* n is the element count it passes and payload its arguments in order.
DrawSubmission(primitive, va, numElements, numInstances) ==
    IF va.instanced
    THEN IF va.indexed
         THEN Upload("drawElementsInstanced", Null, numElements,
                     <<primitive, numElements, va.indexType, 0, numInstances>>)
         ELSE Upload("drawArraysInstanced", Null, numElements,
                     <<primitive, 0, numElements, numInstances>>)
    ELSE IF va.indexed
         THEN Upload("drawElements", Null, numElements,
                     <<primitive, numElements, va.indexType, 0>>)
         ELSE Upload("drawArrays", Null, numElements,
                     <<primitive, 0, numElements>>)

\* app.createDrawCall(p, v).draw() for a program without active uniforms,
\* samplers or uniform blocks and with no transform feedback attached.
Draw(p, v) ==
    /\ p \in Programs /\ p \in created
    /\ v \in VertexArrays /\ v \in created
    /\ LET r1 == ProgramBindOp(appState, p)
           r2 == VertexArrayBindOp(r1.st, v)
       IN /\ appState' = r2.st
          /\ nativeCalls' = r1.calls \o r2.calls
                            \o <<DrawSubmission("TRIANGLES", vaState[v],
                                                vaState[v].numElements,
                                                vaState[v].numInstances)>>
    /\ lastOp' = Op("DrawCall.draw", v, -1)
    /\ UNCHANGED extVars
    /\ UNCHANGED <<created, handle, deleted, currentUnit, currentBase, width,
                   height, vaState, angleBugBuffers, fbVars, ubVars>>
    /\ NativeStep

----------------------------------------------------------------------------
\* Program introspection (src/src/program.js) and the staged state of a
\* DrawCall (src/src/draw-call.js)

\* Names a shader can declare and a caller can pass.
UniformNames == {"uColor", "uScale", "uNonExistent"}
SamplerNames == {"uTexture", "uNoSampler"}
BlockNames == {"SceneUniforms", "NoBlock"}

\* The uniform types Program introspection gives a texture unit to, and the
\* ones it creates a setter for.
SamplerTypes ==
    {"SAMPLER_2D", "INT_SAMPLER_2D", "UNSIGNED_INT_SAMPLER_2D",
     "SAMPLER_2D_SHADOW", "SAMPLER_2D_ARRAY", "INT_SAMPLER_2D_ARRAY",
     "UNSIGNED_INT_SAMPLER_2D_ARRAY", "SAMPLER_2D_ARRAY_SHADOW",
     "SAMPLER_CUBE", "INT_SAMPLER_CUBE", "UNSIGNED_INT_SAMPLER_CUBE",
     "SAMPLER_CUBE_SHADOW", "SAMPLER_3D", "INT_SAMPLER_3D",
     "UNSIGNED_INT_SAMPLER_3D"}
SetterTypes ==
    {"INT", "UNSIGNED_INT", "FLOAT", "BOOL",
     "FLOAT_VEC2", "INT_VEC2", "UNSIGNED_INT_VEC2",
     "FLOAT_VEC3", "INT_VEC3", "UNSIGNED_INT_VEC3",
     "FLOAT_VEC4", "INT_VEC4", "UNSIGNED_INT_VEC4",
     "BOOL_VEC2", "BOOL_VEC3", "BOOL_VEC4",
     "FLOAT_MAT2", "FLOAT_MAT3", "FLOAT_MAT4", "FLOAT_MAT2x3", "FLOAT_MAT2x4",
     "FLOAT_MAT3x2", "FLOAT_MAT3x4", "FLOAT_MAT4x2", "FLOAT_MAT4x3"}

IsSampler(info) == info.type \in SamplerTypes
HasSetter(info) == info.type \in SetterTypes
Names(infos) == [i \in 1 .. Len(infos) |-> infos[i].name]

\* What linking reports for a shader pair: the active uniforms in index order
\* (getActiveUniform: name and type) and the active uniform blocks in index
\* order; uniforms and samplers are the names of the active uniforms that
\* get a setter and of those that get a unit.
ShaderOf(active, blocks) ==
    [active |-> active,
     uniforms |-> Names(SelectSeq(active, HasSetter)),
     samplers |-> Names(SelectSeq(active, IsSampler)),
     blocks |-> blocks]

Shaders ==
    {ShaderOf(<<[name |-> "uColor", type |-> "FLOAT_VEC4"]>>, <<>>),
     ShaderOf(<<[name |-> "uColor", type |-> "FLOAT_VEC4"],
                [name |-> "uScale", type |-> "FLOAT"],
                [name |-> "uTexture", type |-> "SAMPLER_2D"]>>,
              <<"SceneUniforms">>)}

Range(seq) == {seq[i] : i \in 1 .. Len(seq)}

\* object[name] for a map filled from seq in order with the values 0, 1, ...:
\* Program.samplers[name], Program.uniformBlocks[name].
Lookup(seq, name) ==
    IF name \in Range(seq)
    THEN (CHOOSE i \in 1 .. Len(seq) : seq[i] = name) - 1
    ELSE Undefined

\* The native calls that look up the i-th active uniform.
Locate(p, info, i) ==
    <<Call("getActiveUniform", p, i - 1),
      Call("getUniformLocation", info.name, -1)>>

\* One round of the loop that gives every uniform the next unit.
InitUniformCountAll(p, info, i, acc) ==
    [acc EXCEPT
       !.samplerCount = @ + 1,
       !.calls = @ \o Locate(p, info, i)
                   \o (IF IsSampler(info)
                       THEN <<Call("uniform1i", info.name, acc.samplerCount)>>
                       ELSE <<>>),
       !.errors = IF IsSampler(info) \/ HasSetter(info) THEN @ ELSE @ + 1]

\* One round of the loop that lets an unrecognized type take a unit too.
InitUniformAdvancing(p, info, i, acc) ==
    [acc EXCEPT
       !.samplerCount = IF HasSetter(info) THEN @ ELSE @ + 1,
       !.calls = @ \o Locate(p, info, i)
                   \o (IF IsSampler(info)
                       THEN <<Call("uniform1i", info.name, acc.samplerCount)>>
                       ELSE <<>>),
       !.errors = IF IsSampler(info) \/ HasSetter(info) THEN @ ELSE @ + 1]

\* One round of the loop over the active uniforms, for the i-th: a sampler
\* takes the next unit (samplerCount++) and is given it with uniform1i, a
\* type with a setter is registered, any other type is reported and skipped.
InitUniform(p, info, i, acc) ==
    IF IsSampler(info)
    THEN [acc EXCEPT
            !.samplerCount = @ + 1,
            !.calls = @ \o Locate(p, info, i)
                        \o <<Call("uniform1i", info.name, acc.samplerCount)>>]
    ELSE IF HasSetter(info)
    THEN [acc EXCEPT !.calls = @ \o Locate(p, info, i)]
    ELSE [acc EXCEPT !.calls = @ \o Locate(p, info, i), !.errors = @ + 1]

RECURSIVE InitUniforms(_, _, _, _)
InitUniforms(p, active, i, acc) ==
    IF i > Len(active) THEN acc
    ELSE InitUniforms(p, active, i + 1, InitUniform(p, active[i], i, acc))

\* The loop over the active uniform blocks, from the i-th on: each takes the
\* next base (uniformBlockCount++) and is bound to it.
RECURSIVE InitBlocks(_, _, _, _)
InitBlocks(p, blocks, i, acc) ==
    IF i > Len(blocks) THEN acc
    ELSE InitBlocks(p, blocks, i + 1,
            [acc EXCEPT
               !.uniformBlockCount = @ + 1,
               !.calls = @ \o <<Call("getActiveUniformBlockName", p, i - 1),
                                Call("getUniformBlockIndex", blocks[i], -1),
                                Call("uniformBlockBinding", blocks[i],
                                     acc.uniformBlockCount)>>])

\* Introspection of program p linked from shader: the counters it ends with,
\* its native calls and the number of reports it writes.
InitVariables(p, shader) ==
    LET u == InitUniforms(p, shader.active, 1,
                [samplerCount |-> 0, uniformBlockCount |-> 0, errors |-> 0,
                 calls |-> <<Call("getProgramParameter", p, -1)>>])
    IN InitBlocks(p, shader.blocks, 1,
          [u EXCEPT !.calls = @ \o <<Call("getProgramParameter", p, -1)>>])

\* The native calls of the introspection loops of Program.restore().
IntrospectCalls(p, shader) == InitVariables(p, shader).calls

\* new Program(gl, appState, vsSource, fsSource) for sources that link to
\* shader.
CreateProgramFrom(p, shader) ==
    /\ p \in Programs /\ CanCreate(p)
    /\ LET r == ProgramRestoreOp(appState, p) IN
        /\ appState' = r.st
        /\ nativeCalls' = SubSeq(r.calls, 1, Len(r.calls) - 2)
                          \o IntrospectCalls(p, shader)
    /\ programInfo' = [programInfo EXCEPT ![p] =
          [uniforms |-> Range(shader.uniforms),
           samplers |-> shader.samplers,
           uniformBlocks |-> shader.blocks]]
    /\ created' = created \cup {p}
    /\ handle' = [handle EXCEPT ![p] = TRUE]
    /\ lastOp' = Op("Program.constructor", p, -1)
    /\ result' = [raised |-> FALSE, errors |-> 0]
    /\ UNCHANGED <<deleted, currentUnit, currentBase, width, height, vaState,
                   angleBugBuffers, fbVars, ubVars, drawCall, staged>>
    /\ UNCHANGED <<queryVars, miscVars>>
    /\ NativeStep

\* A DrawCall slot array indexed by a unit or base; a JavaScript array also
\* takes the property "undefined".
SlotKeys(indices) == indices \cup {Undefined}

\* app.createDrawCall(program, vertexArray, primitive); the primitive
\* defaults to TRIANGLES. override is history: whether the last
\* elementCount() / instanceCount() call asked for a count of its own.
CreateDrawCall(p, v, primitive) ==
    /\ p \in Programs /\ p \in created
    /\ v \in VertexArrays /\ v \in created
    /\ drawCall' = [made |-> TRUE,
                    currentProgram |-> p,
                    currentVertexArray |-> v,
                    uniformIndices |-> [n \in UniformNames |-> Undefined],
                    uniformNames |-> <<>>,
                    uniformValues |-> <<>>,
                    uniformCount |-> 0,
                    uniformBuffers |-> [b \in SlotKeys(Bases) |-> Null],
                    textures |-> [u \in SlotKeys(Units) |-> Null],
                    numElements |-> vaState[v].numElements,
                    numInstances |-> vaState[v].numInstances,
                    currentTransformFeedback |-> Null,
                    primitive |-> primitive,
                    override |-> <<FALSE, FALSE>>]
    /\ staged' = <<>>
    /\ nativeCalls' = <<>>
    /\ lastOp' = Op("DrawCall.constructor", Null, -1)
    /\ result' = [raised |-> FALSE, errors |-> 0]
    /\ UNCHANGED <<cacheVars, ubVars, programInfo>>
    /\ UNCHANGED <<queryVars, miscVars>>
    /\ NativeStep

\* DrawCall.transformFeedback(transformFeedback)
DrawCallTransformFeedback(f) ==
    /\ drawCall.made
    /\ f \in TransformFeedbacks /\ f \in created
    /\ drawCall' = [drawCall EXCEPT !.currentTransformFeedback = f]
    /\ nativeCalls' = <<>>
    /\ lastOp' = Op("DrawCall.transformFeedback", f, -1)
    /\ result' = [raised |-> FALSE, errors |-> 0]
    /\ UNCHANGED <<cacheVars, ubVars, programInfo, staged>>
    /\ UNCHANGED <<queryVars, miscVars>>
    /\ NativeStep

\* DrawCall.uniform(name, value)
DrawCallUniform(name, value) ==
    /\ drawCall.made
    /\ LET known == drawCall.uniformIndices[name] # Undefined
           index == IF known THEN drawCall.uniformIndices[name]
                    ELSE drawCall.uniformCount
       IN drawCall' =
            [drawCall EXCEPT
               !.uniformCount = IF known THEN @ ELSE @ + 1,
               !.uniformIndices = [@ EXCEPT ![name] = index],
               !.uniformNames = IF known THEN @ ELSE Append(@, name),
               !.uniformValues = IF known THEN [@ EXCEPT ![index + 1] = value]
                                 ELSE Append(@, value)]
    /\ staged' = Append(staged, <<name, value>>)
    /\ nativeCalls' = <<>>
    /\ lastOp' = Op("DrawCall.uniform", name, value)
    /\ result' = [raised |-> FALSE, errors |-> 0]
    /\ UNCHANGED <<cacheVars, ubVars, programInfo>>
    /\ UNCHANGED <<queryVars, miscVars>>
    /\ NativeStep

\* DrawCall.texture(name, texture)
DrawCallTexture(name, texture) ==
    /\ drawCall.made
    /\ texture \in Samplable /\ texture \in created
    /\ LET unit == Lookup(programInfo[drawCall.currentProgram].samplers, name)
       IN drawCall' = [drawCall EXCEPT !.textures[unit] = texture]
    /\ nativeCalls' = <<>>
    /\ lastOp' = Op("DrawCall.texture", name, -1)
    /\ result' = [raised |-> FALSE, errors |-> 0]
    /\ UNCHANGED <<cacheVars, ubVars, programInfo, staged>>
    /\ UNCHANGED <<queryVars, miscVars>>
    /\ NativeStep

\* DrawCall.uniformBlock(name, buffer)
DrawCallUniformBlock(name, buffer) ==
    /\ drawCall.made
    /\ buffer \in UniformBuffers /\ buffer \in created
    /\ LET base == Lookup(programInfo[drawCall.currentProgram].uniformBlocks,
                          name)
       IN drawCall' = [drawCall EXCEPT !.uniformBuffers[base] = buffer]
    /\ nativeCalls' = <<>>
    /\ lastOp' = Op("DrawCall.uniformBlock", name, -1)
    /\ result' = [raised |-> FALSE, errors |-> 0]
    /\ UNCHANGED <<cacheVars, ubVars, programInfo, staged>>
    /\ UNCHANGED <<queryVars, miscVars>>
    /\ NativeStep

\* DrawCall.elementCount(count) that takes the override as it comes.
ElementCountUnclamped(count) ==
    /\ drawCall.made
    /\ LET va == vaState[drawCall.currentVertexArray] IN
          drawCall' = [drawCall EXCEPT !.override[1] = count > 0,
                                       !.numElements =
                          IF count > 0 THEN count ELSE va.numElements]
    /\ nativeCalls' = <<>>
    /\ lastOp' = Op("DrawCall.elementCount", Null, count)
    /\ result' = [raised |-> FALSE, errors |-> 0]
    /\ UNCHANGED <<cacheVars, ubVars, programInfo, staged>>
    /\ UNCHANGED <<queryVars, miscVars>>
    /\ NativeStep

\* DrawCall.elementCount(count)
ElementCount(count) ==
    /\ drawCall.made
    /\ LET va == vaState[drawCall.currentVertexArray] IN
          drawCall' = [drawCall EXCEPT !.override[1] = count > 0,
                                       !.numElements =
                          IF count > 0
                          THEN (IF count < va.numElements
                                THEN count ELSE va.numElements)
                          ELSE va.numElements]
    /\ nativeCalls' = <<>>
    /\ lastOp' = Op("DrawCall.elementCount", Null, count)
    /\ result' = [raised |-> FALSE, errors |-> 0]
    /\ UNCHANGED <<cacheVars, ubVars, programInfo, staged>>
    /\ UNCHANGED <<queryVars, miscVars>>
    /\ NativeStep

\* DrawCall.instanceCount(count)
InstanceCount(count) ==
    /\ drawCall.made
    /\ LET va == vaState[drawCall.currentVertexArray] IN
          drawCall' = [drawCall EXCEPT !.override[2] = count > 0,
                                       !.numInstances =
                          IF count > 0
                          THEN (IF count < va.numInstances
                                THEN count ELSE va.numInstances)
                          ELSE va.numInstances]
    /\ nativeCalls' = <<>>
    /\ lastOp' = Op("DrawCall.instanceCount", Null, count)
    /\ result' = [raised |-> FALSE, errors |-> 0]
    /\ UNCHANGED <<cacheVars, ubVars, programInfo, staged>>
    /\ UNCHANGED <<queryVars, miscVars>>
    /\ NativeStep

\* The native upload a uniform setter issues for a value.
UniformSetCall(name, value) == Upload("uniform", name, -1, <<value>>)

\* Program.uniform(name, value) inside draw(): this.uniforms[name] is
\* undefined for a name that is no active uniform, and calling its set()
\* throws a TypeError.
ProgramUniformOp(p, d, name, value) ==
    IF name \in programInfo[p].uniforms
    THEN [d EXCEPT !.calls = @ \o <<UniformSetCall(name, value)>>]
    ELSE [d EXCEPT !.raised = TRUE]

\* The uniform loop of draw(), from slot uIndex on.
RECURSIVE PushUniforms(_, _, _)
PushUniforms(p, d, uIndex) ==
    IF uIndex >= drawCall.uniformCount \/ d.raised THEN d
    ELSE PushUniforms(p,
            ProgramUniformOp(p, d, drawCall.uniformNames[uIndex + 1],
                             drawCall.uniformValues[uIndex + 1]),
            uIndex + 1)

\* The uniform block loop of draw(): a base nothing was staged for holds
\* undefined, and calling its bind() throws a TypeError.
RECURSIVE BindBlocks(_, _, _)
BindBlocks(d, base, uniformBlockCount) ==
    IF base >= uniformBlockCount \/ d.raised THEN d
    ELSE IF drawCall.uniformBuffers[base] = Null
    THEN [d EXCEPT !.raised = TRUE]
    ELSE LET r == UniformBufferBindOp(d.st, d.cb, drawCall.uniformBuffers[base],
                                      base)
         IN BindBlocks([d EXCEPT !.st = r.st, !.cb = r.cb,
                                 !.calls = @ \o r.calls],
                       base + 1, uniformBlockCount)

\* The texture loop of draw().
RECURSIVE BindTextures(_, _, _)
BindTextures(d, tIndex, textureCount) ==
    IF tIndex >= textureCount \/ d.raised THEN d
    ELSE IF drawCall.textures[tIndex] = Null
    THEN [d EXCEPT !.raised = TRUE]
    ELSE LET th == TextureBindOp([textures |-> d.st.textures,
                                  currentUnit |-> d.cu, handle |-> handle,
                                  width |-> width, height |-> height,
                                  calls |-> <<>>],
                                 drawCall.textures[tIndex], tIndex)
         IN BindTextures([d EXCEPT !.st = [@ EXCEPT !.textures = th.textures],
                                   !.cu = th.currentUnit,
                                   !.calls = @ \o th.calls],
                         tIndex + 1, textureCount)

\* What draw() issues around the submission when a transform feedback is
\* attached: bind and begin before it, end and the null rebinds of the
\* registered buffer indices after it.
BeginCapture(st, f, primitive) ==
    IF f = Null THEN [st |-> st, calls |-> <<>>]
    ELSE LET r == TransformFeedbackBindOp(st, f, angleBugBuffers[f]) IN
            [st |-> r.st,
             calls |-> r.calls \o <<Upload("beginTransformFeedback", Null, -1,
                                           <<primitive>>)>>]

EndCapture(f) ==
    IF f = Null THEN <<>>
    ELSE <<Call("endTransformFeedback", Null, -1)>>
         \o [i \in 1 .. Len(angleBugBuffers[f]) |->
                Call("bindBufferBase", Null, i - 1)]

\* DrawCall.draw()
DrawCallDraw ==
    /\ drawCall.made
    /\ LET p == drawCall.currentProgram
           v == drawCall.currentVertexArray
           r1 == ProgramBindOp(appState, p)
           r2 == VertexArrayBindOp(r1.st, v)
           d0 == [st |-> r2.st, cb |-> currentBase, cu |-> currentUnit,
                  calls |-> r1.calls \o r2.calls, raised |-> FALSE]
           d1 == PushUniforms(p, d0, 0)
           d2 == BindBlocks(d1, 0, Len(programInfo[p].uniformBlocks))
           d3 == BindTextures(d2, 0, Len(programInfo[p].samplers))
           f == drawCall.currentTransformFeedback
           t == BeginCapture(d3.st, f, drawCall.primitive)
       IN /\ appState' = IF d3.raised THEN d3.st ELSE t.st
          /\ currentBase' = d3.cb
          /\ currentUnit' = d3.cu
          /\ nativeCalls' =
                IF d3.raised THEN d3.calls
                ELSE d3.calls \o t.calls
                     \o <<DrawSubmission(drawCall.primitive, vaState[v],
                                         drawCall.numElements,
                                         drawCall.numInstances)>>
                     \o EndCapture(f)
          /\ result' = [raised |-> d3.raised, errors |-> 0]
    /\ lastOp' = Op("DrawCall.draw", Null, -1)
    /\ UNCHANGED <<created, handle, deleted, width, height, vaState,
                   angleBugBuffers, fbVars, ubVars, programInfo, drawCall, staged>>
    /\ UNCHANGED <<queryVars, miscVars>>
    /\ NativeStep

----------------------------------------------------------------------------
\* Program with a separate link check (src/unnamed/part_000)

NoShader == ShaderOf(<<>>, <<>>)

VERTEX_STAGE == 0
FRAGMENT_STAGE == 1

\* new Shader(gl, type, source) for a stage of program p, and Shader.delete()
ShaderNew(p, stage) == <<Call("createShader", p, stage)>>
ShaderDelete(p, stage) == <<Call("deleteShader", p, stage)>>

\* Shader.checkCompilation(): the number of reports it writes for a stage
\* that compiled or did not; it returns normally.
CheckCompilation(compiled) == IF compiled THEN 0 ELSE 1

\* Program.initialize(): unbinds itself, resets the link flags, compiles a
\* new Shader for each stage given as a source string, creates and links a
\* new native program; status is the link result the driver will report for
\* it. ownShaders tells whether the wrapper holds a Shader of its own.
InitializeOp(st, lk, p, status) ==
    [st |-> IF st.program = p THEN [st EXCEPT !.program = Null] ELSE st,
     lk |-> [lk EXCEPT !.linked = FALSE, !.linkFailed = FALSE,
                       !.status = status,
                       !.ownShaders = lk.vertexSource \/ lk.fragmentSource],
     calls |-> (IF st.program = p THEN <<Call("useProgram", Null, -1)>> ELSE <<>>)
               \o (IF lk.vertexSource THEN ShaderNew(p, VERTEX_STAGE) ELSE <<>>)
               \o (IF lk.fragmentSource THEN ShaderNew(p, FRAGMENT_STAGE)
                   ELSE <<>>)
               \o <<Call("createProgram", p, -1), Call("attachShader", p, -1),
                    Call("attachShader", p, -1), Call("linkProgram", p, -1)>>]

\* The end of Program.checkLinkage(): the shaders compiled from source
\* strings are deleted.
DeleteOwnShaders(lk, p) ==
    (IF lk.vertexSource THEN ShaderDelete(p, VERTEX_STAGE) ELSE <<>>)
    \o (IF lk.fragmentSource THEN ShaderDelete(p, FRAGMENT_STAGE) ELSE <<>>)

\* Program.checkLinkage() that introspects whatever LINK_STATUS says.
CheckLinkageOpAlways(st, lk, info, p, vsCompiled, fsCompiled) ==
    IF lk.linked \/ lk.linkFailed
    THEN [st |-> st, lk |-> lk, info |-> info, calls |-> <<>>, errors |-> 0]
    ELSE LET b == ProgramBindOp(st, p) IN
         [st |-> b.st,
          lk |-> [lk EXCEPT !.linked = lk.status, !.linkFailed = ~lk.status,
                            !.ownShaders = FALSE],
          info |-> [uniforms |-> Range(lk.source.uniforms),
                    samplers |-> lk.source.samplers,
                    uniformBlocks |-> lk.source.blocks],
          calls |-> <<Call("getProgramParameter", p, -1)>> \o b.calls
                    \o IntrospectCalls(p, lk.source)
                    \o DeleteOwnShaders(lk, p),
          errors |-> IF lk.status THEN 0 ELSE 1]

\* Program.checkLinkage(): on LINK_STATUS true initVariables() binds the
\* program and fills the maps; on false the info log and the two stages'
\* compile diagnostics are reported; then the program's own shaders are
\* deleted.
CheckLinkageOp(st, lk, info, p, vsCompiled, fsCompiled) ==
    IF lk.linked \/ lk.linkFailed
    THEN [st |-> st, lk |-> lk, info |-> info, calls |-> <<>>, errors |-> 0]
    ELSE IF lk.status
    THEN LET b == ProgramBindOp(st, p) IN
         [st |-> b.st,
          lk |-> [lk EXCEPT !.linked = TRUE, !.ownShaders = FALSE],
          info |-> [uniforms |-> Range(lk.source.uniforms),
                    samplers |-> lk.source.samplers,
                    uniformBlocks |-> lk.source.blocks],
          calls |-> <<Call("getProgramParameter", p, -1)>> \o b.calls
                    \o IntrospectCalls(p, lk.source)
                    \o DeleteOwnShaders(lk, p),
          errors |-> 0]
    ELSE [st |-> st,
          lk |-> [lk EXCEPT !.linkFailed = TRUE, !.ownShaders = FALSE],
          info |-> info,
          calls |-> <<Call("getProgramParameter", p, -1),
                      Call("getProgramInfoLog", p, -1)>>
                    \o DeleteOwnShaders(lk, p),
          errors |-> 1 + CheckCompilation(vsCompiled)
                       + CheckCompilation(fsCompiled)]

\* new Program(gl, appState, vsSource, fsSource) for stages that would link
\* to shader; vertexSource and fragmentSource tell whether the stage is given
\* as a source string or as a Shader object.
NewProgram(p, shader, status, vertexSource, fragmentSource) ==
    /\ p \in Programs /\ CanCreate(p)
    /\ LET r == InitializeOp(appState,
                             [linkage[p] EXCEPT
                                !.source = shader,
                                !.vertexSource = vertexSource,
                                !.fragmentSource = fragmentSource],
                             p, status) IN
        /\ appState' = r.st
        /\ linkage' = [linkage EXCEPT ![p] = r.lk]
        /\ nativeCalls' = r.calls
    /\ programInfo' = [programInfo EXCEPT ![p] =
          [uniforms |-> {}, samplers |-> <<>>, uniformBlocks |-> <<>>]]
    /\ created' = created \cup {p}
    /\ handle' = [handle EXCEPT ![p] = TRUE]
    /\ lastOp' = Op("Program.constructor", p, -1)
    /\ result' = [raised |-> FALSE, errors |-> 0]
    /\ UNCHANGED <<deleted, currentUnit, currentBase, width, height, vaState,
                   angleBugBuffers, fbVars, ubVars, drawCall, staged>>
    /\ UNCHANGED <<queryVars, app, rbState, vbState>>
    /\ NativeStep

\* Program.checkLinkage()
CheckLinkage(p, vsCompiled, fsCompiled) ==
    /\ p \in Programs /\ p \in created /\ handle[p]
    /\ LET r == CheckLinkageOp(appState, linkage[p], programInfo[p], p,
                               vsCompiled, fsCompiled) IN
        /\ appState' = r.st
        /\ linkage' = [linkage EXCEPT ![p] = r.lk]
        /\ programInfo' = [programInfo EXCEPT ![p] = r.info]
        /\ nativeCalls' = r.calls
        /\ result' = [raised |-> FALSE, errors |-> r.errors]
    /\ lastOp' = Op("Program.checkLinkage", p, -1)
    /\ UNCHANGED <<created, handle, deleted, currentUnit, currentBase, width,
                   height, vaState, angleBugBuffers, fbVars, ubVars, drawCall,
                   staged>>
    /\ UNCHANGED <<queryVars, app, rbState, vbState>>
    /\ NativeStep

\* Program.restore(): initialize() and checkLinkage().
RestoreAndCheck(p, status, vsCompiled, fsCompiled) ==
    /\ p \in Programs /\ p \in created
    /\ LET r == InitializeOp(appState, linkage[p], p, status)
           c == CheckLinkageOp(r.st, r.lk, programInfo[p], p,
                               vsCompiled, fsCompiled)
       IN /\ appState' = c.st
          /\ linkage' = [linkage EXCEPT ![p] = c.lk]
          /\ programInfo' = [programInfo EXCEPT ![p] = c.info]
          /\ nativeCalls' = r.calls \o c.calls
          /\ result' = [raised |-> FALSE, errors |-> c.errors]
    /\ handle' = [handle EXCEPT ![p] = TRUE]
    /\ lastOp' = Op("Program.restore", p, -1)
    /\ UNCHANGED <<created, deleted, currentUnit, currentBase, width,
                   height, vaState, angleBugBuffers, fbVars, ubVars, drawCall,
                   staged>>
    /\ UNCHANGED <<queryVars, app, rbState, vbState>>
    /\ NativeStep

----------------------------------------------------------------------------
\* Program that links and introspects in restore() (src/src/program.js), with
\* the driver's link result and the shaders' owner

\* Program.restore(vsSource, fsSource), which the constructor calls too, for
\* stages that link to shader with the result status; ownVertexShader and
\* ownFragmentShader tell whether the stage was given as a source string. A
\* program whose link failed has no active uniforms or blocks.
ProgramRestoreFrom(p, shader, status, ownVertexShader, ownFragmentShader) ==
    /\ p \in Programs /\ (CanCreate(p) \/ p \in created)
    /\ LET un == IF appState.program = p
                 THEN <<Call("useProgram", Null, -1)>> ELSE <<>>
           b == ProgramBindOp([appState EXCEPT !.program =
                                  IF @ = p THEN Null ELSE @], p)
           active == IF status THEN shader ELSE NoShader
       IN /\ appState' = b.st
          /\ nativeCalls' =
                un
                \o (IF ownVertexShader THEN ShaderNew(p, VERTEX_STAGE) ELSE <<>>)
                \o (IF ownFragmentShader THEN ShaderNew(p, FRAGMENT_STAGE)
                    ELSE <<>>)
                \o <<Call("createProgram", p, -1), Call("attachShader", p, -1),
                     Call("attachShader", p, -1), Call("linkProgram", p, -1),
                     Call("getProgramParameter", p, -1)>>
                \o (IF status THEN <<>>
                    ELSE <<Call("getProgramInfoLog", p, -1)>>)
                \o (IF ownVertexShader THEN ShaderDelete(p, VERTEX_STAGE)
                    ELSE <<>>)
                \o (IF ownFragmentShader THEN ShaderDelete(p, FRAGMENT_STAGE)
                    ELSE <<>>)
                \o b.calls \o IntrospectCalls(p, active)
          /\ programInfo' = [programInfo EXCEPT ![p] =
                [uniforms |-> @.uniforms \cup Range(active.uniforms),
                 samplers |-> IF status THEN active.samplers ELSE @.samplers,
                 uniformBlocks |-> IF status THEN active.blocks
                                   ELSE @.uniformBlocks]]
    /\ linkage' = [linkage EXCEPT ![p] =
          [@ EXCEPT !.status = status, !.source = shader,
                    !.vertexSource = ownVertexShader,
                    !.fragmentSource = ownFragmentShader]]
    /\ created' = created \cup {p}
    /\ handle' = [handle EXCEPT ![p] = TRUE]
    /\ lastOp' = Op(IF p \in created THEN "Program.restore"
                    ELSE "Program.constructor", p, -1)
    /\ result' = [raised |-> FALSE,
                  errors |-> IF status THEN InitVariables(p, shader).errors
                             ELSE 1]
    /\ UNCHANGED <<deleted, currentUnit, currentBase, width, height, vaState,
                   angleBugBuffers, fbVars, ubVars, drawCall, staged>>
    /\ UNCHANGED <<queryVars, app, rbState, vbState>>
    /\ NativeStep

----------------------------------------------------------------------------
\* Query (src/unnamed/part_001) and Timer (src/src/timer.js)

\* q1, q2: queries made by App.createQuery() on two different targets;
\* tq1: the gpuTimerQuery of the Timer.
Queries == {"q1", "q2", "tq1"}

\* Query results the device reports, in nanoseconds for a timer query.
NanosPerMilli == 1000000
QueryResults == {n * NanosPerMilli : n \in 1 .. (MaxValue + 1)}

\* new Query(gl, target): the constructor ends in restore(), which makes a
\* fresh GL query object.
MadeQuery == [made |-> TRUE, query |-> TRUE, active |-> FALSE,
              result |-> Undefined, cycle |-> "none"]

\* Query.begin() on the fields qs and the GL query object dq.  beginQuery on
\* a target whose query is running is INVALID_OPERATION and changes nothing.
BeginQ(q, qs, dq) ==
    IF ~qs.active
    THEN [qs |-> [qs EXCEPT !.result = Undefined, !.cycle = "begun"],
          dq |-> [dq EXCEPT !.phase = "running"],
          calls |-> <<Call("beginQuery", q, 0)>>]
    ELSE [qs |-> qs, dq |-> dq, calls |-> <<>>]

\* Query.end().  endQuery on a target with no running query is
\* INVALID_OPERATION and changes nothing.
EndQ(q, qs, dq) ==
    IF ~qs.active
    THEN [qs |-> [qs EXCEPT !.active = TRUE,
                            !.cycle = IF @ = "begun" THEN "completed" ELSE "stray"],
          dq |-> IF dq.phase = "running" THEN [dq EXCEPT !.phase = "ended"] ELSE dq,
          calls |-> <<Call("endQuery", q, 0)>>]
    ELSE [qs |-> qs, dq |-> dq, calls |-> <<>>]

\* Query.ready().  QUERY_RESULT_AVAILABLE is true once the device has
\* signalled; on a query never begun or still running getQueryParameter is
\* INVALID_OPERATION and returns null.
ReadyQ(q, qs, dq) ==
    IF qs.active /\ dq.phase = "available"
    THEN [qs |-> [qs EXCEPT !.active = FALSE, !.result = dq.value,
                            !.cycle = "none"],
          ret |-> TRUE]
    ELSE [qs |-> qs, ret |-> FALSE]

\* App.createQuery(target)
CreateQuery(q) ==
    /\ ~queryState[q].made
    /\ queryState' = [queryState EXCEPT ![q] = MadeQuery]
    /\ deviceQuery' = [deviceQuery EXCEPT ![q] = [phase |-> "new", value |-> 0]]
    /\ nativeCalls' = <<Call("createQuery", q, 0)>>
    /\ lastOp' = Op("Query.constructor", q, -1)
    /\ returned' = FALSE
    /\ UNCHANGED <<cacheVars, ubVars, drawVars, miscVars, timer, clock>>
    /\ NativeStep

\* Query.begin()
QueryBegin(q) ==
    /\ queryState[q].made
    /\ LET r == BeginQ(q, queryState[q], deviceQuery[q]) IN
          /\ queryState' = [queryState EXCEPT ![q] = r.qs]
          /\ deviceQuery' = [deviceQuery EXCEPT ![q] = r.dq]
          /\ nativeCalls' = r.calls
    /\ lastOp' = Op("Query.begin", q, -1)
    /\ returned' = FALSE
    /\ UNCHANGED <<cacheVars, ubVars, drawVars, miscVars, timer, clock>>
    /\ NativeStep

\* Query.end()
QueryEnd(q) ==
    /\ queryState[q].made
    /\ LET r == EndQ(q, queryState[q], deviceQuery[q]) IN
          /\ queryState' = [queryState EXCEPT ![q] = r.qs]
          /\ deviceQuery' = [deviceQuery EXCEPT ![q] = r.dq]
          /\ nativeCalls' = r.calls
    /\ lastOp' = Op("Query.end", q, -1)
    /\ returned' = FALSE
    /\ UNCHANGED <<cacheVars, ubVars, drawVars, miscVars, timer, clock>>
    /\ NativeStep

\* Query.ready()
QueryReady(q) ==
    /\ queryState[q].made
    /\ LET r == ReadyQ(q, queryState[q], deviceQuery[q]) IN
          /\ queryState' = [queryState EXCEPT ![q] = r.qs]
          /\ returned' = r.ret
    /\ nativeCalls' = <<>>
    /\ lastOp' = Op("Query.ready", q, -1)
    /\ UNCHANGED <<cacheVars, ubVars, drawVars, miscVars, deviceQuery, timer, clock>>
    /\ NativeStep

\* The device finishes an ended query and makes its result available.
DeviceSignal(q, value) ==
    /\ deviceQuery[q].phase = "ended"
    /\ deviceQuery' = [deviceQuery EXCEPT ![q] = [phase |-> "available",
                                                  value |-> value]]
    /\ nativeCalls' = <<>>
    /\ lastOp' = Op("device", q, -1)
    /\ UNCHANGED <<cacheVars, ubVars, drawVars, miscVars, queryState, timer, clock,
                   returned>>
    /\ NativeStep

\* performance.now() moves on.
Tick ==
    /\ clock < MaxClock
    /\ clock' = clock + 1
    /\ nativeCalls' = <<>>
    /\ lastOp' = Op("clock", Null, -1)
    /\ UNCHANGED <<cacheVars, ubVars, drawVars, miscVars, queryState, deviceQuery, timer,
                   returned>>
    /\ NativeStep

\* App.createTimer(): gpuTimer says whether the context has a disjoint timer
\* query extension.
CreateTimer(gpuTimer) ==
    /\ ~timer.made
    /\ timer' = [made |-> TRUE, gpuTimer |-> gpuTimer, cpuStartTime |-> 0,
                 cpuTime |-> 0, gpuTime |-> 0, cycle |-> "none"]
    /\ IF gpuTimer
       THEN /\ queryState' = [queryState EXCEPT !["tq1"] = MadeQuery]
            /\ deviceQuery' = [deviceQuery EXCEPT !["tq1"] =
                                  [phase |-> "new", value |-> 0]]
            /\ nativeCalls' = <<Call("createQuery", "tq1", 0)>>
       ELSE /\ nativeCalls' = <<>>
            /\ UNCHANGED <<queryState, deviceQuery>>
    /\ lastOp' = Op("Timer.constructor", "tm1", -1)
    /\ returned' = FALSE
    /\ UNCHANGED <<cacheVars, ubVars, drawVars, miscVars, clock>>
    /\ NativeStep

\* Timer.start()
TimerStart ==
    /\ timer.made
    /\ IF timer.gpuTimer
       THEN IF ~queryState["tq1"].active
            THEN LET r == BeginQ("tq1", queryState["tq1"], deviceQuery["tq1"]) IN
                    /\ queryState' = [queryState EXCEPT !["tq1"] = r.qs]
                    /\ deviceQuery' = [deviceQuery EXCEPT !["tq1"] = r.dq]
                    /\ nativeCalls' = r.calls
                    /\ timer' = [timer EXCEPT !.cpuStartTime = clock,
                                               !.cycle = "begun"]
            ELSE /\ nativeCalls' = <<>>
                 /\ UNCHANGED <<queryState, deviceQuery, timer>>
       ELSE /\ timer' = [timer EXCEPT !.cpuStartTime = clock, !.cycle = "begun"]
            /\ nativeCalls' = <<>>
            /\ UNCHANGED <<queryState, deviceQuery>>
    /\ lastOp' = Op("Timer.start", "tm1", -1)
    /\ returned' = FALSE
    /\ UNCHANGED <<cacheVars, ubVars, drawVars, miscVars, clock>>
    /\ NativeStep

\* Timer.end()
TimerEnd ==
    /\ timer.made
    /\ LET ended == [timer EXCEPT
                        !.cpuTime = clock - timer.cpuStartTime,
                        !.cycle = IF @ = "begun" THEN "completed" ELSE "stray"]
       IN IF timer.gpuTimer
          THEN IF ~queryState["tq1"].active
               THEN LET r == EndQ("tq1", queryState["tq1"], deviceQuery["tq1"]) IN
                       /\ queryState' = [queryState EXCEPT !["tq1"] = r.qs]
                       /\ deviceQuery' = [deviceQuery EXCEPT !["tq1"] = r.dq]
                       /\ nativeCalls' = r.calls
                       /\ timer' = ended
               ELSE /\ nativeCalls' = <<>>
                    /\ UNCHANGED <<queryState, deviceQuery, timer>>
          ELSE /\ timer' = ended
               /\ nativeCalls' = <<>>
               /\ UNCHANGED <<queryState, deviceQuery>>
    /\ lastOp' = Op("Timer.end", "tm1", -1)
    /\ returned' = FALSE
    /\ UNCHANGED <<cacheVars, ubVars, drawVars, miscVars, clock>>
    /\ NativeStep

\* Timer.ready(); disjoint is what getParameter(GPU_DISJOINT_EXT) returns.
TimerReady(disjoint) ==
    /\ timer.made
    /\ IF timer.gpuTimer
       THEN IF ~queryState["tq1"].active
            THEN /\ returned' = FALSE
                 /\ UNCHANGED <<queryState, timer>>
            ELSE LET r == ReadyQ("tq1", queryState["tq1"], deviceQuery["tq1"]) IN
                    /\ queryState' = [queryState EXCEPT !["tq1"] = r.qs]
                    /\ IF r.ret /\ ~disjoint
                       THEN /\ timer' = [timer EXCEPT
                                   !.gpuTime = r.qs.result \div NanosPerMilli,
                                   !.cycle = "none"]
                            /\ returned' = TRUE
                       ELSE /\ timer' = [timer EXCEPT
                                   !.cycle = IF r.ret THEN "none" ELSE @]
                            /\ returned' = FALSE
       ELSE /\ returned' = (timer.cpuStartTime # 0)
            /\ timer' = [timer EXCEPT
                            !.cycle = IF timer.cpuStartTime # 0 THEN "none" ELSE @]
            /\ UNCHANGED queryState
    /\ nativeCalls' = <<>>
    /\ lastOp' = Op("Timer.ready", "tm1", -1)
    /\ UNCHANGED <<cacheVars, ubVars, drawVars, miscVars, deviceQuery, clock>>
    /\ NativeStep

----------------------------------------------------------------------------
\* Renderbuffer (src/src/timer.js), VertexBuffer as a wrapper
\* (src/unnamed/part_001), Query.delete() and Timer.delete()

\* Renderbuffer.restore(): a new native renderbuffer, then resize() to the
\* recorded size.
RenderbufferRestoreCalls(r, rb) ==
    <<Call("createRenderbuffer", r, -1),
      Call("bindRenderbuffer", r, -1),
      Upload("renderbufferStorageMultisample", r, rb.samples,
             <<rb.width, rb.height>>),
      Call("bindRenderbuffer", Null, -1)>>

\* app.createRenderbuffer(width, height, internalFormat, samples)
CreateRenderbuffer(r, w, h, samples) ==
    /\ r \in Renderbuffers /\ CanCreate(r)
    /\ rbState' = [rbState EXCEPT ![r] = [width |-> w, height |-> h,
                                          samples |-> samples]]
    /\ nativeCalls' = RenderbufferRestoreCalls(r, rbState'[r])
    /\ created' = created \cup {r}
    /\ handle' = [handle EXCEPT ![r] = TRUE]
    /\ lastOp' = Op("Renderbuffer.constructor", r, -1)
    /\ UNCHANGED <<appState, deleted, currentUnit, currentBase, width, height,
                   vaState, angleBugBuffers, fbVars, ubVars>>
    /\ UNCHANGED <<drawVars, queryVars, linkage, app, vbState>>
    /\ NativeStep

\* Renderbuffer.restore()
RenderbufferRestore(r) ==
    /\ r \in Renderbuffers /\ r \in created
    /\ nativeCalls' = RenderbufferRestoreCalls(r, rbState[r])
    /\ handle' = [handle EXCEPT ![r] = TRUE]
    /\ lastOp' = Op("Renderbuffer.restore", r, -1)
    /\ UNCHANGED <<appState, created, deleted, currentUnit, currentBase, width,
                   height, vaState, angleBugBuffers, fbVars, ubVars>>
    /\ UNCHANGED extVars
    /\ NativeStep

\* Renderbuffer.delete(): deleteRenderbuffer is called whatever the handle is.
RenderbufferDelete(r) ==
    /\ r \in Renderbuffers /\ r \in created
    /\ nativeCalls' = <<Call("deleteRenderbuffer",
                             IF handle[r] THEN r ELSE Null, -1)>>
    /\ handle' = [handle EXCEPT ![r] = FALSE]
    /\ deleted' = deleted \cup {r}
    /\ lastOp' = Op("delete", r, -1)
    /\ UNCHANGED <<appState, created, currentUnit, currentBase, width, height,
                   vaState, angleBugBuffers, fbVars, ubVars>>
    /\ UNCHANGED extVars
    /\ NativeStep

\* VertexBuffer.restore(data): unbinds the cached vertex array, then creates
\* a new native buffer and allocates it from the data argument: the array to
\* store, or with no argument (Null) the byte size the wrapper's fields give.
VertexBufferRestoreOp(st, b, array) ==
    [st |-> [st EXCEPT !.vertexArray = Null],
     calls |-> (IF st.vertexArray # Null
                THEN <<Call("bindVertexArray", Null, -1)>> ELSE <<>>)
               \o <<Call("createBuffer", b, -1), Call("bindBuffer", b, -1),
                    Upload("bufferData", b, -1,
                           IF array = Null THEN <<>> ELSE <<array>>),
                    Call("bindBuffer", Null, -1)>>]

\* app.createVertexBuffer(type, itemSize, data) / app.createIndexBuffer(...)
\* for data of numItems items.
CreateVertexBuffer(b, itemSize, numItems, indexArray) ==
    /\ b \in VertexBuffers /\ CanCreate(b)
    /\ vbState' = [vbState EXCEPT ![b] = [numItems |-> numItems,
                                          itemSize |-> itemSize,
                                          indexArray |-> indexArray]]
    /\ LET r == VertexBufferRestoreOp(appState, b, "data") IN
        /\ appState' = r.st
        /\ nativeCalls' = r.calls
    /\ created' = created \cup {b}
    /\ handle' = [handle EXCEPT ![b] = TRUE]
    /\ lastOp' = Op("VertexBuffer.constructor", b, -1)
    /\ UNCHANGED <<deleted, currentUnit, currentBase, width, height,
                   vaState, angleBugBuffers, fbVars, ubVars>>
    /\ UNCHANGED <<drawVars, queryVars, linkage, app, rbState>>
    /\ NativeStep

\* VertexBuffer.restore()
RestoreVertexBuffer(b) ==
    /\ b \in VertexBuffers /\ b \in created
    /\ LET r == VertexBufferRestoreOp(appState, b, Null) IN
        /\ appState' = r.st
        /\ nativeCalls' = r.calls
    /\ handle' = [handle EXCEPT ![b] = TRUE]
    /\ lastOp' = Op("VertexBuffer.restore", b, -1)
    /\ UNCHANGED <<created, deleted, currentUnit, currentBase, width, height,
                   vaState, angleBugBuffers, fbVars, ubVars>>
    /\ UNCHANGED extVars
    /\ NativeStep

\* VertexBuffer.data(data) on a wrapper of the pool
VertexBufferDataOf(b, array) ==
    /\ b \in VertexBuffers /\ b \in created
    /\ appState' = [appState EXCEPT !.vertexArray = Null]
    /\ nativeCalls' = (IF appState.vertexArray # Null
                       THEN <<Call("bindVertexArray", Null, -1)>> ELSE <<>>)
                      \o <<Call("bindBuffer", b, -1),
                           Upload("bufferSubData", b, 0, <<array>>),
                           Call("bindBuffer", Null, -1)>>
    /\ lastOp' = Op("VertexBuffer.data", b, -1)
    /\ UNCHANGED <<created, handle, deleted, currentUnit, currentBase, width,
                   height, vaState, angleBugBuffers, fbVars, ubVars>>
    /\ UNCHANGED extVars
    /\ NativeStep

\* VertexBuffer.delete()
VertexBufferDelete(b) ==
    /\ b \in VertexBuffers /\ b \in created
    /\ IF handle[b]
       THEN /\ handle' = [handle EXCEPT ![b] = FALSE]
            /\ nativeCalls' = <<Call("deleteBuffer", b, -1)>>
       ELSE /\ nativeCalls' = <<>>
            /\ UNCHANGED handle
    /\ deleted' = deleted \cup {b}
    /\ lastOp' = Op("delete", b, -1)
    /\ UNCHANGED <<appState, created, currentUnit, currentBase, width, height,
                   vaState, angleBugBuffers, fbVars, ubVars>>
    /\ UNCHANGED extVars
    /\ NativeStep

\* Query.delete() on the fields qs.
DeleteQ(q, qs) ==
    IF qs.query
    THEN [qs |-> [qs EXCEPT !.query = FALSE],
          calls |-> <<Call("deleteQuery", q, -1)>>]
    ELSE [qs |-> qs, calls |-> <<>>]

\* Query.delete()
QueryDelete(q) ==
    /\ queryState[q].made
    /\ LET r == DeleteQ(q, queryState[q]) IN
          /\ queryState' = [queryState EXCEPT ![q] = r.qs]
          /\ nativeCalls' = r.calls
    /\ lastOp' = Op("delete", q, -1)
    /\ UNCHANGED <<cacheVars, ubVars, drawVars, miscVars, deviceQuery, timer,
                   clock, returned>>
    /\ NativeStep

\* Timer.delete(): gpuTimerQuery is non-null exactly when gpuTimer is set.
TimerDelete ==
    /\ timer.made
    /\ IF timer.gpuTimer
       THEN LET r == DeleteQ("tq1", queryState["tq1"]) IN
               /\ queryState' = [queryState EXCEPT !["tq1"] = r.qs]
               /\ nativeCalls' = r.calls
               /\ timer' = [timer EXCEPT !.gpuTimer = FALSE]
       ELSE /\ nativeCalls' = <<>>
            /\ UNCHANGED <<queryState, timer>>
    /\ lastOp' = Op("delete", "tm1", -1)
    /\ UNCHANGED <<cacheVars, ubVars, drawVars, miscVars, deviceQuery, clock,
                   returned>>
    /\ NativeStep

----------------------------------------------------------------------------
\* App viewport (src/src/timer.js)

\* App.viewport(x, y, width, height) on the App fields a.
ViewportOp(a, x, y, w, h) ==
    IF a.viewportWidth # w \/ a.viewportHeight # h
       \/ a.viewportX # x \/ a.viewportY # y
    THEN [a |-> [a EXCEPT !.viewportX = x, !.viewportY = y,
                          !.viewportWidth = w, !.viewportHeight = h,
                          !.glViewport = <<x, y, w, h>>],
          calls |-> <<Upload("viewport", Null, -1, <<x, y, w, h>>)>>]
    ELSE [a |-> a, calls |-> <<>>]

\* App.viewport(x, y, width, height)
AppViewport(x, y, w, h) ==
    /\ LET r == ViewportOp(app, x, y, w, h) IN
          /\ app' = r.a
          /\ nativeCalls' = r.calls
    /\ lastOp' = Op("App.viewport", Null, -1)
    /\ UNCHANGED <<cacheVars, ubVars, drawVars, queryVars, linkage, rbState,
                   vbState>>
    /\ NativeStep

\* App.defaultViewport()
DefaultViewport ==
    /\ LET r == ViewportOp(app, 0, 0, app.width, app.height) IN
          /\ app' = r.a
          /\ nativeCalls' = r.calls
    /\ lastOp' = Op("App.defaultViewport", Null, -1)
    /\ UNCHANGED <<cacheVars, ubVars, drawVars, queryVars, linkage, rbState,
                   vbState>>
    /\ NativeStep

\* App.resize(width, height): the drawing buffer takes the canvas size.
AppResize(w, h) ==
    /\ LET r == ViewportOp([app EXCEPT !.width = w, !.height = h], 0, 0, w, h) IN
          /\ app' = r.a
          /\ nativeCalls' = r.calls
    /\ lastOp' = Op("App.resize", Null, -1)
    /\ UNCHANGED <<cacheVars, ubVars, drawVars, queryVars, linkage, rbState,
                   vbState>>
    /\ NativeStep

----------------------------------------------------------------------------
\* Specifications

\* A freshly constructed App: every cache slot empty, no wrapper constructed.
InitProgram ==
    /\ appState = [program |-> Null, vertexArray |-> Null,
                   transformFeedback |-> Null, drawFramebuffer |-> Null,
                   readFramebuffer |-> Null,
                   textures |-> [n \in Units |-> Null],
                   uniformBuffers |-> [n \in Bases |-> Null]]
    /\ created = {}
    /\ handle = [w \in Wrappers |-> FALSE]
    /\ deleted = {}
    /\ currentUnit = [t \in Samplable |-> -1]
    /\ currentBase = [u \in UniformBuffers |-> -1]
    /\ width = [t \in Samplable |-> 0]
    /\ height = [t \in Samplable |-> 0]
    /\ vaState = [v \in VertexArrays |-> [numElements |-> 0, numInstances |-> 0,
                                          instanced |-> FALSE, indexed |-> FALSE,
                                          indexType |-> Null,
                                          given |-> <<0, 0>>]]
    /\ angleBugBuffers = [f \in TransformFeedbacks |-> <<>>]
    /\ colorAttachments = [fb \in Framebuffers |-> <<>>]
    /\ colorAttachmentEnums = [fb \in Framebuffers |-> <<>>]
    /\ colorAttachmentTargets = [fb \in Framebuffers |-> <<>>]
    /\ depthAttachment = [fb \in Framebuffers |-> Null]
    /\ fbSize = [fb \in Framebuffers |-> <<0, 0>>]
    /\ layout = [u \in UniformBuffers |-> <<>>]
    /\ offsets = [u \in UniformBuffers |-> <<>>]
    /\ sizes = [u \in UniformBuffers |-> <<>>]
    /\ types = [u \in UniformBuffers |-> <<>>]
    /\ size = [u \in UniformBuffers |-> 0]
    /\ data = [u \in UniformBuffers |-> <<>>]
    /\ deviceData = [u \in UniformBuffers |-> <<>>]
    /\ uploaded = [u \in UniformBuffers |-> <<>>]
    /\ lastOp = [op |-> "App.constructor", w |-> Null, slot |-> -1,
                 again |-> FALSE, wasBound |-> FALSE, fresh |-> TRUE,
                 afterSet |-> FALSE]
    /\ nativeCalls = <<>>
    /\ programInfo = [p \in Programs |->
                        [uniforms |-> {}, samplers |-> <<>>, uniformBlocks |-> <<>>]]
    /\ drawCall = [made |-> FALSE, currentProgram |-> Null,
                   currentVertexArray |-> Null,
                   uniformIndices |-> [n \in UniformNames |-> Undefined],
                   uniformNames |-> <<>>, uniformValues |-> <<>>,
                   uniformCount |-> 0,
                   uniformBuffers |-> [b \in SlotKeys(Bases) |-> Null],
                   textures |-> [u \in SlotKeys(Units) |-> Null],
                   numElements |-> 0, numInstances |-> 0,
                   currentTransformFeedback |-> Null,
                   primitive |-> "TRIANGLES",
                   override |-> <<FALSE, FALSE>>]
    /\ staged = <<>>
    /\ result = [raised |-> FALSE, errors |-> 0]
    /\ queryState = [q \in Queries |-> [made |-> FALSE, query |-> FALSE,
                                        active |-> FALSE, result |-> Undefined,
                                        cycle |-> "none"]]
    /\ deviceQuery = [q \in Queries |-> [phase |-> "none", value |-> 0]]
    /\ timer = [made |-> FALSE, gpuTimer |-> FALSE, cpuStartTime |-> 0,
                cpuTime |-> 0, gpuTime |-> 0, cycle |-> "none"]
    /\ clock = 1
    /\ returned = FALSE
    /\ linkage = [p \in Programs |-> [linked |-> FALSE, linkFailed |-> FALSE,
                                      status |-> FALSE, ownShaders |-> FALSE,
                                      vertexSource |-> FALSE,
                                      fragmentSource |-> FALSE,
                                      source |-> NoShader]]
    /\ app = [width |-> 1, height |-> 1, viewportX |-> 0, viewportY |-> 0,
              viewportWidth |-> 1, viewportHeight |-> 1,
              glViewport |-> <<0, 0, 1, 1>>]
    /\ rbState = [r \in Renderbuffers |-> [width |-> 0, height |-> 0,
                                           samples |-> 0]]
    /\ vbState = [b \in VertexBuffers |-> [numItems |-> 0, itemSize |-> 0,
                                           indexArray |-> FALSE]]

\* The initial state of the specifications that do not follow the context,
\* and of those that do.
Init == InitProgram /\ native = [NoContext EXCEPT !.followed = FALSE]
InitContext == InitProgram /\ native = NoContext

\* Layout used for the uniform buffers of the cache specifications.
CacheLayout == <<"FLOAT">>

\* Spec: every wrapper kind of the state cache under create / bind / draw /
\* restore / delete, at most MaxWrappers wrappers constructed in one run.
\* delete() ends a wrapper's life: the only call made on a deleted wrapper is
\* delete() again.
Live(w) == w \in created /\ w \notin deleted
Room == Cardinality(created) < MaxWrappers

ProgramNext ==
    \E p \in Programs :
        \/ Room /\ CreateProgram(p)
        \/ Live(p) /\ ProgramRestore(p)
        \/ Live(p) /\ ProgramBind(p)
        \/ ProgramDelete(p)

VertexArrayNext ==
    \/ \E v \in VertexArrays :
        \/ \E ne \in 0 .. MaxItems : Room /\ CreateVertexArray(v, ne, 0)
        \/ Live(v) /\ VertexArrayRestore(v)
        \/ Live(v) /\ VertexArrayBind(v)
        \/ \E n \in 1 .. MaxItems : Live(v) /\ AttributeBuffer(v, n, FALSE)
        \/ VertexArrayDelete(v)
        \/ \E p \in Programs : Live(p) /\ Live(v) /\ Draw(p, v)
    \/ VertexBufferRestore

TransformFeedbackNext ==
    \E f \in TransformFeedbacks :
        \/ Room /\ CreateTransformFeedback(f)
        \/ Live(f) /\ TransformFeedbackRestore(f)
        \/ Live(f) /\ TransformFeedbackBind(f)
        \/ \E i \in 0 .. (MaxFeedbackBuffers - 1) : Live(f) /\ FeedbackBuffer(f, i)
        \/ TransformFeedbackDelete(f)

FramebufferNext ==
    \/ \E fb \in Framebuffers :
        \/ Room /\ CreateFramebuffer(fb)
        \/ Live(fb) /\ FramebufferRestore(fb)
        \/ Live(fb) /\ BindForDraw(fb)
        \/ Live(fb) /\ BindForRead(fb)
        \/ FramebufferDelete(fb)
    \/ DefaultDrawFramebuffer
    \/ DefaultReadFramebuffer

TextureNext ==
    \/ \E t \in Textures :
        \/ Room /\ CreateTexture(t, 1, 1, FALSE)
        \/ Live(t) /\ TextureRestore(t, FALSE)
        \/ \E unit \in Units : Live(t) /\ TextureBind(t, unit)
        \/ TextureDelete(t)
    \/ \E c \in Cubemaps :
        \/ Room /\ CreateCubemap(c, 1, 1, FALSE)
        \/ Live(c) /\ CubemapRestore(c, FALSE)
        \/ \E unit \in Units : Live(c) /\ CubemapBind(c, unit)
        \/ CubemapDelete(c)

UniformBufferNext ==
    \E u \in UniformBuffers :
        \/ Room /\ CreateUniformBuffer(u, CacheLayout)
        \/ Live(u) /\ UniformBufferRestore(u)
        \/ \E base \in Bases : Live(u) /\ UniformBufferBind(u, base)
        \/ UniformBufferDelete(u)

Next ==
    \/ ProgramNext
    \/ VertexArrayNext
    \/ TransformFeedbackNext
    \/ FramebufferNext
    \/ TextureNext
    \/ UniformBufferNext

Spec == Init /\ [][Next]_vars

\* SpecContext: the same with the context followed.
SpecContext == InitContext /\ [][Next]_vars

\* SpecTexture: textures, the cubemap and a framebuffer they are attached to
\* as color targets (at most MaxWrappers wrappers in one run), under any
\* sequence of constructor, bind, resize, data, restore and delete calls,
\* calls on a deleted wrapper included.
SamplableNext ==
    \/ \E t \in Textures :
        \/ \E w \in Dims : Room /\ CreateTexture(t, w, 1, FALSE)
        \/ TextureRestore(t, FALSE)
        \/ \E w \in Dims : TextureResize(t, w, 1)
        \/ TextureData(t)
        \/ \E unit \in Units : TextureBind(t, unit)
        \/ TextureDelete(t)
    \/ \E c \in Cubemaps :
        \/ Room /\ CreateCubemap(c, 1, 1, FALSE)
        \/ CubemapRestore(c, FALSE)
        \/ \E unit \in Units : CubemapBind(c, unit)
        \/ CubemapDelete(c)

AttachmentNext ==
    \E fb \in Framebuffers :
        \/ Room /\ CreateFramebuffer(fb)
        \/ \E att \in Samplable : ColorTarget(fb, 0, att)
        \/ \E w \in Dims : FramebufferResize(fb, w, 1)

NextTexture == SamplableNext \/ AttachmentNext

SpecTexture == Init /\ [][NextTexture]_vars

\* SpecUniform: several uniform buffers under any sequence of constructor,
\* bind, update, restore and delete calls.
NextUniform ==
    \E u \in UniformBuffers :
        \/ CreateUniformBuffer(u, CacheLayout)
        \/ UniformBufferRestore(u)
        \/ \E base \in Bases : UniformBufferBind(u, base)
        \/ UniformBufferUpdate(u, Undefined)
        \/ UniformBufferDelete(u)

SpecUniform == Init /\ [][NextUniform]_vars

\* SpecLayout: one uniform buffer constructed with any layout of at most
\* MaxLen type tags.
NextLayout ==
    /\ "u1" \notin created
    /\ \E n \in 1 .. MaxLen : \E lay \in [1 .. n -> TypeTags] :
          CreateUniformBuffer("u1", lay)

SpecLayout == Init /\ [][NextLayout]_vars

\* SpecUB: one uniform buffer with a layout of scalars and vectors under
\* set / update / restore; a value has one number per component of its entry.
DataLayouts == {<<"FLOAT", "INT_VEC2">>,
                <<"UNSIGNED_INT", "FLOAT_VEC3">>,
                <<"INT_VEC2", "FLOAT", "BOOL">>}

Components(type) ==
    CASE type \in Scalars -> 1
      [] type \in Vec2s -> 2
      [] type \in Vec3s -> 3
      [] type \in Vec4s -> 4

Values(type) == [1 .. Components(type) -> 0 .. MaxValue]

NextUB ==
    \/ \E lay \in DataLayouts : CreateUniformBuffer("u1", lay)
    \/ \E i \in 0 .. (MaxLen - 1) :
          /\ "u1" \in created /\ i < Len(layout["u1"])
          /\ \E value \in Values(layout["u1"][i + 1]) : UniformBufferSet("u1", i, value)
    \/ \E i \in 0 .. (MaxLen - 1) : UniformBufferUpdate("u1", i)
    \/ UniformBufferUpdate("u1", Undefined)
    \/ UniformBufferRestore("u1")

SpecUB == Init /\ [][NextUB]_vars

\* SpecFramebuffer: framebuffer fb1 with a texture and a cubemap to attach at
\* any color index below MaxColorTargets or as depth target, resized and
\* queried while fb1, fb2 or the default framebuffer is bound for drawing or
\* reading.
NextFramebuffer ==
    \/ \E fb \in Framebuffers : CreateFramebuffer(fb)
    \/ CreateTexture("t1", 1, 1, FALSE)
    \/ CreateCubemap("c1", 1, 1, FALSE)
    \/ \E index \in 0 .. (MaxColorTargets - 1) : \E att \in {"t1", "c1"} :
          ColorTarget("fb1", index, att)
    \/ DepthTarget("fb1", "t1")
    \/ \E w \in Dims : FramebufferResize("fb1", w, 1)
    \/ GetStatus("fb1")
    \/ \E fb \in Framebuffers : BindForDraw(fb)
    \/ \E fb \in Framebuffers : BindForRead(fb)
    \/ DefaultDrawFramebuffer

SpecFramebuffer == Init /\ [][NextFramebuffer]_vars

\* SpecFramebufferContext: the same with the context followed.
SpecFramebufferContext == InitContext /\ [][NextFramebuffer]_vars

\* SpecVertexArray: one vertex array constructed with any counts up to
\* MaxCount, bound to vertex-rate and instance-rate buffers of 1 to MaxCount
\* items and to an index buffer, and a DrawCall on it whose counts are
\* overridden and drawn.
NextVertexArray ==
    \/ \E ne \in 0 .. MaxCount : \E ni \in 0 .. MaxCount :
          CreateVertexArray("va1", ne, ni)
    \/ \E n \in 1 .. MaxCount : \E instanced \in BOOLEAN :
          AttributeBuffer("va1", n, instanced)
    \/ IndexBuffer("va1", 1)
    \/ CreateProgram("p1")
    \/ CreateDrawCall("p1", "va1", "TRIANGLES")
    \/ \E n \in 0 .. (MaxCount + 1) : ElementCount(n)
    \/ \E n \in 0 .. (MaxCount + 1) : InstanceCount(n)
    \/ DrawCallDraw

SpecVertexArray == Init /\ [][NextVertexArray]_vars

\* SpecVertexArrayContext: the same with the context followed.
SpecVertexArrayContext == InitContext /\ [][NextVertexArray]_vars

\* SpecQuery: two queries begun, ended and polled in any order while the
\* device finishes ended queries at its own pace.
NextQuery ==
    \/ \E q \in {"q1", "q2"} : CreateQuery(q)
    \/ \E q \in {"q1", "q2"} : QueryBegin(q)
    \/ \E q \in {"q1", "q2"} : QueryEnd(q)
    \/ \E q \in {"q1", "q2"} : QueryReady(q)
    \/ \E q \in {"q1", "q2"} : \E value \in QueryResults : DeviceSignal(q, value)

SpecQuery == Init /\ [][NextQuery]_vars

\* SpecTimer: one Timer, with or without the timer query extension, started,
\* ended and polled in any order while the clock and the device move on.
NextTimer ==
    \/ \E gpuTimer \in BOOLEAN : CreateTimer(gpuTimer)
    \/ TimerStart
    \/ TimerEnd
    \/ \E disjoint \in BOOLEAN : TimerReady(disjoint)
    \/ \E value \in QueryResults : DeviceSignal("tq1", value)
    \/ Tick

SpecTimer == Init /\ [][NextTimer]_vars

\* SpecDelete: the wrappers of Spec, a Renderbuffer, a VertexBuffer, a Query
\* and a Timer, each constructed, used and deleted, delete() being called any
\* number of times.
NextDelete ==
    \/ Next
    \/ \E w \in Dims : Room /\ CreateRenderbuffer("rb1", w, 1, 0)
    \/ RenderbufferDelete("rb1")
    \/ \E n \in 1 .. MaxItems : Room /\ CreateVertexBuffer("vb1", 1, n, FALSE)
    \/ VertexBufferDelete("vb1")
    \/ CreateQuery("q1")
    \/ QueryDelete("q1")
    \/ \E gpuTimer \in BOOLEAN : CreateTimer(gpuTimer)
    \/ TimerDelete

SpecDelete == Init /\ [][NextDelete]_vars

\* SpecViewport: the App resized and its viewport set while framebuffers
\* are bound for drawing and the default draw framebuffer is bound again.
NextViewport ==
    \/ \E fb \in Framebuffers : CreateFramebuffer(fb)
    \/ \E fb \in Framebuffers : BindForDraw(fb)
    \/ \E x \in 0 .. 1 : \E w \in Dims : \E h \in Dims : AppViewport(x, 0, w, h)
    \/ DefaultViewport
    \/ \E w \in Dims : \E h \in Dims : AppResize(w, h)
    \/ DefaultDrawFramebuffer

SpecViewport == Init /\ [][NextViewport]_vars

\* SpecLink: one Program constructed from either shader pair, each stage
\* given as a source string or as a Shader object, its linkage
\* checked, bound and restored in any order, the driver deciding at each link
\* whether it succeeds and whether each stage compiled.
NextLink ==
    \/ \E shader \in Shaders : \E status \in BOOLEAN :
          \E vertexSource \in BOOLEAN : \E fragmentSource \in BOOLEAN :
             NewProgram("p1", shader, status, vertexSource, fragmentSource)
    \/ \E vsCompiled \in BOOLEAN : \E fsCompiled \in BOOLEAN :
          CheckLinkage("p1", vsCompiled, fsCompiled)
    \/ \E status \in BOOLEAN : \E vsCompiled \in BOOLEAN :
          \E fsCompiled \in BOOLEAN :
             RestoreAndCheck("p1", status, vsCompiled, fsCompiled)
    \/ /\ linkage["p1"].linked
       /\ ProgramBind("p1")
    \/ ProgramDelete("p1")

SpecLink == Init /\ [][NextLink]_vars

\* SpecDrawCall: one DrawCall on a program linked from either shader pair,
\* with a vertex array, a texture and a uniform buffer to stage, under any
\* sequence of at most MaxStaged uniform() calls, any texture() and
\* uniformBlock() calls, and draw().
NextDrawCall ==
    \/ \E shader \in Shaders : CreateProgramFrom("p1", shader)
    \/ CreateVertexArray("va1", 1, 0)
    \/ CreateTexture("t1", 1, 1, FALSE)
    \/ CreateUniformBuffer("u1", CacheLayout)
    \/ CreateDrawCall("p1", "va1", "TRIANGLES")
    \/ /\ Len(staged) < MaxStaged
       /\ \E name \in UniformNames : \E value \in 0 .. MaxValue :
             DrawCallUniform(name, value)
    \/ \E name \in SamplerNames : DrawCallTexture(name, "t1")
    \/ \E name \in BlockNames : DrawCallUniformBlock(name, "u1")
    \/ DrawCallDraw

SpecDrawCall == Init /\ [][NextDrawCall]_vars

\* Primitives a DrawCall is created with.
Primitives == {"TRIANGLES", "POINTS"}

\* SpecDraw: one DrawCall of either primitive on a program linked from
\* either shader pair and a vertex array that may be instanced and indexed,
\* with a transform feedback of up to MaxFeedbackBuffers registered buffers
\* to attach, a texture and a uniform buffer to stage, fewer than MaxStaged
\* uniform() calls for the names the larger shader pair declares, and draw().
NextDraw ==
    \/ \E shader \in Shaders : CreateProgramFrom("p1", shader)
    \/ CreateVertexArray("va1", 1, 0)
    \/ AttributeBuffer("va1", 1, TRUE)
    \/ IndexBuffer("va1", 1)
    \/ CreateTexture("t1", 1, 1, FALSE)
    \/ CreateUniformBuffer("u1", CacheLayout)
    \/ CreateTransformFeedback("tf1")
    \/ \E index \in 0 .. (MaxFeedbackBuffers - 1) : FeedbackBuffer("tf1", index)
    \/ \E primitive \in Primitives : CreateDrawCall("p1", "va1", primitive)
    \/ DrawCallTransformFeedback("tf1")
    \/ /\ Len(staged) < MaxStaged - 1
       /\ \E name \in {"uColor", "uScale"} : DrawCallUniform(name, 1)
    \/ DrawCallTexture("uTexture", "t1")
    \/ DrawCallUniformBlock("SceneUniforms", "u1")
    \/ DrawCallDraw

SpecDraw == Init /\ [][NextDraw]_vars

\* SpecCapture: one DrawCall on a program without uniforms and a vertex
\* array, with a transform feedback of up to MaxFeedbackBuffers registered
\* buffers that is bound, restored and attached to the DrawCall, and draw(),
\* while the context is followed.
NextCapture ==
    \/ CreateProgram("p1")
    \/ CreateVertexArray("va1", 1, 0)
    \/ CreateTransformFeedback("tf1")
    \/ \E index \in 0 .. (MaxFeedbackBuffers - 1) : FeedbackBuffer("tf1", index)
    \/ TransformFeedbackBind("tf1")
    \/ TransformFeedbackRestore("tf1")
    \/ CreateDrawCall("p1", "va1", "POINTS")
    \/ DrawCallTransformFeedback("tf1")
    \/ DrawCallDraw

SpecCapture == InitContext /\ [][NextCapture]_vars

\* SpecRestore: one wrapper of each kind that carries descriptive
\* attributes, created with any of a few configurations, changed by the
\* calls that set those attributes, and restored at any time.
NextRestore ==
    \/ \E w \in Dims : \E h \in Dims : CreateTexture("t1", w, h, FALSE)
    \/ \E w \in Dims : TextureResize("t1", w, 1)
    \/ \E image \in BOOLEAN : TextureRestore("t1", image)
    \/ CreateCubemap("c1", MaxDim, MaxDim, FALSE)
    \/ \E faces \in BOOLEAN : CubemapRestore("c1", faces)
    \/ \E w \in Dims : CreateRenderbuffer("rb1", w, 1, 1)
    \/ RenderbufferRestore("rb1")
    \/ \E numItems \in 1 .. MaxCount :
          CreateVertexBuffer("vb1", 1, numItems, FALSE)
    \/ RestoreVertexBuffer("vb1")
    \/ CreateUniformBuffer("u1", CacheLayout)
    \/ \E value \in Values("FLOAT") : UniformBufferSet("u1", 0, value)
    \/ UniformBufferRestore("u1")
    \/ CreateVertexArray("va1", 0, 0)
    \/ AttributeBuffer("va1", 1, TRUE)
    \/ IndexBuffer("va1", 1)
    \/ VertexArrayRestore("va1")

SpecRestore == Init /\ [][NextRestore]_vars

\* SpecReattach: a framebuffer given color and depth attachments and a
\* vertex array given attribute and index buffers, each restored at any
\* time.
NextReattach ==
    \/ CreateFramebuffer("fb1")
    \/ CreateTexture("t1", 1, 1, FALSE)
    \/ \E index \in 0 .. (MaxColorTargets - 1) : ColorTarget("fb1", index, "t1")
    \/ DepthTarget("fb1", "t1")
    \/ FramebufferRestore("fb1")
    \/ CreateVertexArray("va1", 0, 0)
    \/ \E instanced \in BOOLEAN : AttributeBuffer("va1", 1, instanced)
    \/ IndexBuffer("va1", 1)
    \/ VertexArrayRestore("va1")

SpecReattach == Init /\ [][NextReattach]_vars

\* SpecReupload: a texture, a vertex buffer and a uniform buffer that are
\* given data and restored, with or without data, while the context is
\* followed.
NextReupload ==
    \/ \E image \in BOOLEAN : CreateTexture("t1", 1, 1, image)
    \/ TextureData("t1")
    \/ \E image \in BOOLEAN : TextureRestore("t1", image)
    \/ CreateVertexBuffer("vb1", 1, 1, FALSE)
    \/ VertexBufferDataOf("vb1", "newer data")
    \/ RestoreVertexBuffer("vb1")
    \/ CreateUniformBuffer("u1", CacheLayout)
    \/ \E value \in Values("FLOAT") : UniformBufferSet("u1", 0, value)
    \/ UniformBufferUpdate("u1", 0)
    \/ UniformBufferRestore("u1")

SpecReupload == InitContext /\ [][NextReupload]_vars

\* Shader pairs with several samplers and blocks, and one with a uniform of
\* a type introspection does not know.
IntrospectShaders ==
    Shaders \cup
    {ShaderOf(<<[name |-> "uColor", type |-> "FLOAT_VEC4"],
                [name |-> "uTexture", type |-> "SAMPLER_2D"],
                [name |-> "uScale", type |-> "FLOAT"],
                [name |-> "uVolume", type |-> "SAMPLER_3D"]>>,
              <<"SceneUniforms", "LightUniforms">>),
     ShaderOf(<<[name |-> "uTexture", type |-> "SAMPLER_2D"],
                [name |-> "uExternal", type |-> "SAMPLER_EXTERNAL_OES"],
                [name |-> "uColor", type |-> "FLOAT_VEC4"],
                [name |-> "uVolume", type |-> "SAMPLER_3D"]>>,
              <<"SceneUniforms">>)}

\* SpecIntrospect: one Program that links in restore() (program.js),
\* constructed and restored from any of these shader pairs, given as source
\* strings or as Shader objects, bound and deleted in any order, the driver
\* deciding at each link whether it succeeds.
NextIntrospect ==
    \/ \E shader \in IntrospectShaders : \E status \in BOOLEAN :
          \E ownVertexShader \in BOOLEAN : \E ownFragmentShader \in BOOLEAN :
             ProgramRestoreFrom("p1", shader, status, ownVertexShader,
                                ownFragmentShader)
    \/ ProgramBind("p1")
    \/ ProgramDelete("p1")

SpecIntrospect == Init /\ [][NextIntrospect]_vars

\* Layouts with a tag the UniformBuffer constructor does not list.
MixedTags == {"FLOAT", "FLOAT_VEC2", "FLOAT_VEC4"} \cup UnsupportedTypes

\* SpecUnsupported: one uniform buffer constructed with any layout of at most
\* MaxLen of these tags, and one Program constructed and restored from any
\* of the shader pairs.
NextUnsupported ==
    \/ \E n \in 1 .. MaxLen : \E lay \in [1 .. n -> MixedTags] :
          CreateUniformBuffer("u1", lay)
    \/ \E shader \in IntrospectShaders : \E status \in BOOLEAN :
          ProgramRestoreFrom("p1", shader, status, TRUE, TRUE)

SpecUnsupported == Init /\ [][NextUnsupported]_vars

----------------------------------------------------------------------------
\* Properties of the state cache

\* The operation that produced the state was delete() on a wrapper that had
\* not been deleted before.
FirstDelete == lastOp.op = "delete" /\ lastOp.fresh

\* C1: immediately after W.delete() returns, for a wrapper W of any kind
\* reached by create / bind / draw / restore operations, no slot of the state
\* cache references W.
C1_DeleteClearsCache ==
    FirstDelete => ~InCache(appState, lastOp.w)

\* C2: immediately after W.delete() returns on a Texture, Cubemap or
\* UniformBuffer that was bound to a slot, W's own binding-slot field
\* (currentUnit / currentBase) reads -1.
C2_DeleteResetsBindingField ==
    (FirstDelete /\ lastOp.wasBound) =>
        /\ lastOp.w \in Samplable => currentUnit[lastOp.w] = -1
        /\ lastOp.w \in UniformBuffers => currentBase[lastOp.w] = -1

BindOps == {"Program.bind", "VertexArray.bind", "Framebuffer.bindForDraw",
            "Framebuffer.bindForRead", "TransformFeedback.bind",
            "Texture.bind", "Cubemap.bind", "UniformBuffer.bind"}

\* C3: when a bind operation is applied to the same wrapper and the same slot
\* twice in a row, the second call issues no native call and changes no
\* wrapper field and no cache slot.
C3_SecondBindIsNoOp ==
    [][(lastOp'.op \in BindOps /\ lastOp'.again)
          => (nativeCalls' = <<>> /\ programState' = programState)]_vars

\* A texture has just been bound a second time to unit 1 while another
\* samplable occupies unit 0.
C3_Witness ==
    /\ lastOp.op = "Texture.bind" /\ lastOp.again /\ lastOp.slot = 1
    /\ appState.textures[1] = lastOp.w
    /\ appState.textures[0] \in Samplable

\* C4: for every Texture or Cubemap T and every unit N, T.currentUnit = N
\* exactly when appState.textures[N] is T, and T.currentUnit = -1 exactly
\* when no texture-unit slot references T.
C4_UnitAgreesWithCache ==
    \A t \in Samplable :
        /\ \A n \in Units : currentUnit[t] = n <=> appState.textures[n] = t
        /\ currentUnit[t] = -1 <=> \A n \in Units : appState.textures[n] # t

\* Framebuffer.resize has just recreated an attached texture and bound it.
C4_Witness ==
    /\ lastOp.op = "Framebuffer.resize"
    /\ \E t \in Textures :
          /\ colorAttachments[lastOp.w] = <<t>>
          /\ width[t] = MaxDim
          /\ currentUnit[t] = 0 /\ appState.textures[0] = t
    /\ \E k \in 1 .. Len(nativeCalls) : nativeCalls[k].f = "createTexture"

\* C5: for every UniformBuffer U and every base N, U.currentBase = N exactly
\* when appState.uniformBuffers[N] is U.
C5_BaseAgreesWithCache ==
    \A u \in UniformBuffers : \A n \in Bases :
        currentBase[u] = n <=> appState.uniformBuffers[n] = u

----------------------------------------------------------------------------
\* Properties of the uniform buffer layout

\* The uniform buffer has been constructed from supported type tags only.
Constructed(u) ==
    /\ u \in created
    /\ \A i \in 1 .. Len(layout[u]) : layout[u][i] \in SupportedTypes

\* Alignment of an entry in words, as the layout rule states it.
Alignment(type) ==
    IF type \in Scalars THEN 1 ELSE IF type \in Vec2s THEN 2 ELSE 4

\* The smallest multiple of a that is >= c.
SmallestMultiple(a, c) ==
    CHOOSE m \in c .. (c + a) :
        /\ m % a = 0
        /\ \A k \in c .. (m - 1) : k % a # 0

\* The running cursor before entry i (1-based): the end of the entry before it.
CursorBefore(u, i) ==
    IF i = 1 THEN 0 ELSE offsets[u][i - 1] + sizes[u][i - 1]

\* C6: each entry's offset is the smallest word index >= the running cursor
\* that is a multiple of the entry's alignment (1, 2 or 4 words), and the final
\* size is the smallest multiple of 4 words >= the cursor after the last
\* entry; [FLOAT, FLOAT_VEC4, FLOAT] gives offsets [0,4,8] and size 12,
\* [FLOAT_VEC2, FLOAT_VEC2] gives offsets [0,2] and size 4.
C6_LayoutAlignment ==
    Constructed("u1") =>
        LET lay == layout["u1"] IN
        /\ \A i \in 1 .. Len(lay) :
              offsets["u1"][i] =
                  SmallestMultiple(Alignment(lay[i]), CursorBefore("u1", i))
        /\ size["u1"] = SmallestMultiple(4, CursorBefore("u1", Len(lay) + 1))
        /\ lay = <<"FLOAT", "FLOAT_VEC4", "FLOAT">>
              => offsets["u1"] = <<0, 4, 8>> /\ size["u1"] = 12
        /\ lay = <<"FLOAT_VEC2", "FLOAT_VEC2">>
              => offsets["u1"] = <<0, 2>> /\ size["u1"] = 4

\* A scalar followed by a 2-component and a 4-component vector: both vectors
\* had to be padded.
C6_Witness ==
    /\ Constructed("u1")
    /\ layout["u1"] = <<"FLOAT", "INT_VEC2", "FLOAT_VEC4">>
    /\ offsets["u1"] = <<0, 2, 4>>
    /\ size["u1"] = 8

\* Word count of an item as the layout rule states it: the component count
\* of a vector, columns x 4 of a matrix.
WordCount(type) ==
    CASE type \in Scalars -> 1
      [] type \in Vec2s -> 2
      [] type \in Vec3s -> 3
      [] type \in Vec4s -> 4
      [] type \in Mat2s -> 8
      [] type \in Mat3s -> 12
      [] type \in Mat4s -> 16

\* C7: after an entry is placed the running cursor advances by the item's
\* word count (1, 2, 3, 4 for scalars and vectors, columns x 4 for matrices),
\* so the next entry, and the final size, are aligned from offset + word
\* count; in [FLOAT_VEC3, FLOAT] the FLOAT is at word 3 and the size is 4.
C7_CursorAdvance ==
    Constructed("u1") =>
        LET lay == layout["u1"]
            After(i) == offsets["u1"][i] + WordCount(lay[i])
        IN /\ \A i \in 1 .. (Len(lay) - 1) :
                 offsets["u1"][i + 1] =
                     SmallestMultiple(Alignment(lay[i + 1]), After(i))
           /\ size["u1"] = SmallestMultiple(4, After(Len(lay)))
           /\ lay = <<"FLOAT_VEC3", "FLOAT">>
                 => offsets["u1"] = <<0, 3>> /\ size["u1"] = 4

\* Base element type of a declared entry.
BaseType(type) ==
    IF type \in {"INT", "INT_VEC2", "INT_VEC3", "INT_VEC4"} THEN "INT"
    ELSE IF type \in {"UNSIGNED_INT", "UNSIGNED_INT_VEC2", "UNSIGNED_INT_VEC3",
                      "UNSIGNED_INT_VEC4"} THEN "UNSIGNED_INT"
    ELSE "FLOAT"

\* Bit patterns a value of 0 .. MaxValue has in the view of a base type.
ViewPatterns(base) == {ViewBits(base, v) : v \in 0 .. MaxValue}

\* C8: the recorded base type of every entry is INT, UNSIGNED_INT or FLOAT
\* as declared, and set() writes through the view of the declared base type
\* inside the entry: every word of an entry holds the declared view's bit
\* pattern of a value that was set (or the initial 0), and every word outside
\* the entries' components is still 0.
C8_TypedViewWrites ==
    Constructed("u1") =>
        LET lay == layout["u1"]
            InEntry(w, i) == /\ w - 1 >= offsets["u1"][i]
                             /\ w - 1 < offsets["u1"][i] + Components(lay[i])
        IN /\ \A i \in 1 .. Len(lay) : types["u1"][i] = BaseType(lay[i])
           /\ \A w \in 1 .. size["u1"] :
                 /\ \A i \in 1 .. Len(lay) :
                       InEntry(w, i)
                          => data["u1"][w] \in ViewPatterns(BaseType(lay[i]))
                 /\ (\A i \in 1 .. Len(lay) : ~InEntry(w, i))
                          => data["u1"][w] = 0

IsUpload(c) == c.f = "bufferSubData"

\* C9: update(i), in particular right after set(i, v) and for i = 0, issues
\* exactly one native upload, to byte offset offsets[i] * 4, of the sizes[i]
\* words of the local store that start at offsets[i]; update() issues exactly
\* one upload of the whole local store to byte offset 0.
C9_UpdateUploadsEntryRange ==
    lastOp.op = "UniformBuffer.update" =>
        LET u == lastOp.w
            ups == SelectSeq(nativeCalls, IsUpload)
        IN /\ Len(ups) = 1
           /\ IF lastOp.slot = Undefined
              THEN /\ ups[1].n = 0
                   /\ ups[1].payload = data[u]
              ELSE LET i == lastOp.slot + 1 IN
                   /\ ups[1].n = offsets[u][i] * 4
                   /\ Len(ups[1].payload) = sizes[u][i]
                   /\ \A k \in 1 .. sizes[u][i] :
                         ups[1].payload[k] = data[u][offsets[u][i] + k]

\* update(0) has just run right after set(0, v) with a non-zero v, while a
\* later entry holds a value that has never been uploaded.
C9_Witness ==
    /\ lastOp.op = "UniformBuffer.update" /\ lastOp.afterSet /\ lastOp.slot = 0
    /\ data[lastOp.w][1] # 0
    /\ deviceData[lastOp.w][1] = data[lastOp.w][1]
    /\ \E w \in 2 .. size[lastOp.w] :
          data[lastOp.w][w] # 0 /\ deviceData[lastOp.w][w] = 0

\* C10: set() issues no native call and leaves the device-side buffer as it
\* is; after any interleaving of set and update calls every word of the
\* device-side buffer holds the local value at the last update that covered
\* it (0 when none has since the buffer was allocated).
C10_SetIsLocal ==
    /\ lastOp.op = "UniformBuffer.set" => nativeCalls = <<>>
    /\ \A u \in UniformBuffers :
          (u \in created /\ handle[u]) =>
              \A w \in 1 .. size[u] :
                  deviceData[u][w] =
                      IF uploaded[u][w] = None THEN 0 ELSE uploaded[u][w]

\* set() has just changed an entry that an earlier update had uploaded: the
\* device still holds the uploaded value.
C10_Witness ==
    /\ lastOp.op = "UniformBuffer.set"
    /\ \E w \in 1 .. size[lastOp.w] :
          /\ uploaded[lastOp.w][w] # None
          /\ uploaded[lastOp.w][w] # 0
          /\ data[lastOp.w][w] = 0
          /\ deviceData[lastOp.w][w] = uploaded[lastOp.w][w]

----------------------------------------------------------------------------
\* Properties of the DrawCall

\* The names passed to uniform() since the DrawCall was made, the position of
\* a name's first and last call, and the slot its first call earned: the
\* number of distinct names staged before it.
NamesStaged == {staged[i][1] : i \in 1 .. Len(staged)}
FirstUse(name) ==
    CHOOSE i \in 1 .. Len(staged) :
        staged[i][1] = name /\ \A j \in 1 .. (i - 1) : staged[j][1] # name
LastUse(name) ==
    CHOOSE i \in 1 .. Len(staged) :
        staged[i][1] = name /\ \A j \in (i + 1) .. Len(staged) : staged[j][1] # name
FirstSlot(name) == Cardinality({staged[j][1] : j \in 1 .. (FirstUse(name) - 1)})

\* The uniform slots agree with the calls made: one slot per distinct name,
\* in order of first use, holding the value of the latest call.
UniformSlotsMatchCalls ==
    /\ drawCall.uniformCount = Cardinality(NamesStaged)
    /\ Len(drawCall.uniformNames) = drawCall.uniformCount
    /\ \A i, j \in 1 .. Len(drawCall.uniformNames) :
          drawCall.uniformNames[i] = drawCall.uniformNames[j] => i = j
    /\ \A name \in NamesStaged :
          /\ drawCall.uniformIndices[name] = FirstSlot(name)
          /\ drawCall.uniformNames[FirstSlot(name) + 1] = name
          /\ drawCall.uniformValues[FirstSlot(name) + 1] = staged[LastUse(name)][2]

IsUniformUpload(c) == c.f = "uniform"

\* draw() has pushed every staged name once, with its latest value.
DrawPushedEveryName ==
    \A name \in NamesStaged :
        SelectSeq(nativeCalls, LAMBDA c : IsUniformUpload(c) /\ c.obj = name)
            = <<UniformSetCall(name, staged[LastUse(name)][2])>>

\* The slots of a slot array that hold something.
Occupied(slots) == {k \in DOMAIN slots : slots[k] # Null}

\* C11: for any sequence of uniform(name, value) calls on a DrawCall,
\* uniformCount is the number of distinct names, each name keeps the slot of
\* its first use, uniformNames has no duplicate and the slot holds the latest
\* value, so draw() pushes each staged name exactly once with that value;
\* texture() and uniformBlock() called again with the same name overwrite the
\* same slot.
C11_StagingByName ==
    [][/\ drawCall'.made => UniformSlotsMatchCalls'
       /\ lastOp'.op = "DrawCall.draw" => DrawPushedEveryName'
       /\ (lastOp'.op = "DrawCall.texture" /\ lastOp'.again)
             => Occupied(drawCall'.textures) = Occupied(drawCall.textures)
       /\ (lastOp'.op = "DrawCall.uniformBlock" /\ lastOp'.again)
             => Occupied(drawCall'.uniformBuffers)
                   = Occupied(drawCall.uniformBuffers)]_vars

\* The program of the DrawCall has uColor active and nothing to bind.
OnlyPlainUniforms ==
    /\ drawCall.made
    /\ "uColor" \in programInfo[drawCall.currentProgram].uniforms
    /\ programInfo[drawCall.currentProgram].samplers = <<>>
    /\ programInfo[drawCall.currentProgram].uniformBlocks = <<>>

IsDrawSubmission(c) ==
    c.f \in {"drawArrays", "drawElements", "drawArraysInstanced",
             "drawElementsInstanced"}

\* C12: with uColor active, after uniform("uColor", v) and
\* uniform("uNonExistent", 5), draw() raises no exception, reports a
\* diagnostic for the unknown name, uploads uColor exactly once and the
\* unknown name never, and submits the draw.
C12_UnknownUniformAtDraw ==
    (/\ lastOp.op = "DrawCall.draw"
     /\ OnlyPlainUniforms
     /\ NamesStaged = {"uColor", "uNonExistent"})
    => /\ ~result.raised
       /\ result.errors >= 1
       /\ Len(SelectSeq(nativeCalls,
                LAMBDA c : IsUniformUpload(c) /\ c.obj = "uColor")) = 1
       /\ Len(SelectSeq(nativeCalls,
                LAMBDA c : IsUniformUpload(c) /\ c.obj = "uNonExistent")) = 0
       /\ Len(SelectSeq(nativeCalls, IsDrawSubmission)) = 1

\* The name passed to the last texture() / uniformBlock() call is no active
\* sampler / uniform block of the DrawCall's program.
UnknownBindingName ==
    \/ /\ lastOp.op = "DrawCall.texture"
       /\ lastOp.w \notin Range(programInfo[drawCall.currentProgram].samplers)
    \/ /\ lastOp.op = "DrawCall.uniformBlock"
       /\ lastOp.w \notin Range(programInfo[drawCall.currentProgram].uniformBlocks)

\* C13: texture(name, t) or uniformBlock(name, b) with a name that is no
\* active sampler / uniform block reports a diagnostic, raises no exception
\* and leaves every staged texture-unit and uniform-buffer-base binding as it
\* was.
C13_UnknownBindingNameIsNoOp ==
    [][UnknownBindingName'
          => /\ result'.errors >= 1
             /\ ~result'.raised
             /\ \A unit \in Units :
                   drawCall'.textures[unit] = drawCall.textures[unit]
             /\ \A base \in Bases :
                   drawCall'.uniformBuffers[base] = drawCall.uniformBuffers[base]]_vars

----------------------------------------------------------------------------
\* Properties of the Framebuffer

IsDrawBuffers(c) == c.f = "drawBuffers"
IsAttach(c) == c.f = "framebufferTexture2D"

\* C14: on a framebuffer with n color targets, colorTarget(i, a) with i >= n
\* leaves the three attachment lists with length i + 1, the new slots n .. i-1
\* holding the placeholder (enum NONE, attachment null), slot i holding a with
\* enum COLOR_ATTACHMENT0 + i and the slots below n unchanged; every
\* colorTarget call, with i < n too, issues exactly one drawBuffers call that
\* carries the full enum list.
C14_AttachmentGrowth ==
    [][lastOp'.op = "Framebuffer.colorTarget" =>
        LET fb == lastOp'.w
            i == lastOp'.slot
            n == Len(colorAttachments[fb])
            a == SelectSeq(nativeCalls', IsAttach)[1].obj
        IN /\ i >= n =>
                /\ Len(colorAttachments'[fb]) = i + 1
                /\ Len(colorAttachmentEnums'[fb]) = i + 1
                /\ Len(colorAttachmentTargets'[fb]) = i + 1
                /\ \A k \in (n + 1) .. i :
                      /\ colorAttachmentEnums'[fb][k] = NONE
                      /\ colorAttachments'[fb][k] = Null
                /\ \A k \in 1 .. n :
                      /\ colorAttachmentEnums'[fb][k] = colorAttachmentEnums[fb][k]
                      /\ colorAttachments'[fb][k] = colorAttachments[fb][k]
           /\ colorAttachments'[fb][i + 1] = a
           /\ colorAttachmentEnums'[fb][i + 1] = COLOR_ATTACHMENT0 + i
           /\ SelectSeq(nativeCalls', IsDrawBuffers)
                 = <<Upload("drawBuffers", fb, Len(colorAttachmentEnums'[fb]),
                            colorAttachmentEnums'[fb])>>]_vars

\* colorTarget(2, t1) has just run on a framebuffer without color targets.
C14_Witness ==
    /\ lastOp.op = "Framebuffer.colorTarget" /\ lastOp.slot = 2
    /\ colorAttachments[lastOp.w] = <<Null, Null, "t1">>
    /\ colorAttachmentEnums[lastOp.w] = <<NONE, NONE, COLOR_ATTACHMENT0 + 2>>

IsBindFramebuffer(c) == c.f = "bindFramebuffer"

\* The operations that bind the framebuffer for a state update.
CapturingOps == {"Framebuffer.getStatus", "Framebuffer.colorTarget",
                 "Framebuffer.depthTarget", "Framebuffer.resize"}

\* C20: getStatus(), colorTarget(), depthTarget() and resize() leave
\* appState.drawFramebuffer and appState.readFramebuffer unchanged, and on
\* return the natively bound draw framebuffer is the one that was bound
\* before: the operation has bound nothing, or the last framebuffer it bound
\* is appState.drawFramebuffer (the default framebuffer when that is null).
C20_CaptureAndRestore ==
    [][lastOp'.op \in CapturingOps =>
        LET binds == SelectSeq(nativeCalls', IsBindFramebuffer) IN
        /\ appState'.drawFramebuffer = appState.drawFramebuffer
        /\ appState'.readFramebuffer = appState.readFramebuffer
        /\ \/ binds = <<>>
           \/ binds[Len(binds)].obj = appState.drawFramebuffer]_vars

----------------------------------------------------------------------------
\* Properties of the VertexArray and DrawCall counts

\* The last attributeBuffer() call bound an instance-rate buffer.
BoundInstanced(calls) ==
    \E i \in 1 .. Len(calls) : calls[i].f = "vertexAttribDivisor"

C16_CountsFixedOnce ==
    [][lastOp'.op = "VertexArray.attributeBuffer" =>
        LET va == vaState[lastOp'.w]
            va1 == vaState'[lastOp'.w]
            k == lastOp'.slot
        IN /\ (va.numElements # 0 /\ ~va.indexed)
                 => va1.numElements = va.numElements
           /\ va.numInstances # 0 => va1.numInstances = va.numInstances
           /\ (va.given[1] # 0 /\ ~va.indexed) => va1.numElements = va.given[1]
           /\ va.given[2] # 0 => va1.numInstances = va.given[2]]_vars

Min(a, b) == IF a < b THEN a ELSE b

\* C17: elementCount(n) sets the DrawCall's element count to
\* min(n, vertexArray.numElements) when n > 0 and to vertexArray.numElements
\* when n is 0 or omitted, instanceCount(n) does the same against
\* numInstances, so right after either call the DrawCall's count does not
\* exceed the VertexArray's.
C17_CountOverrideClamped ==
    LET va == vaState[drawCall.currentVertexArray]
        n == lastOp.slot
    IN /\ lastOp.op = "DrawCall.elementCount" =>
            /\ drawCall.numElements
                  = (IF n > 0 THEN Min(n, va.numElements) ELSE va.numElements)
            /\ drawCall.numElements <= va.numElements
       /\ lastOp.op = "DrawCall.instanceCount" =>
            /\ drawCall.numInstances
                  = (IF n > 0 THEN Min(n, va.numInstances) ELSE va.numInstances)
            /\ drawCall.numInstances <= va.numInstances

\* elementCount(n) has just run with n above the vertex array's count.
C17_Witness ==
    /\ lastOp.op = "DrawCall.elementCount"
    /\ vaState[drawCall.currentVertexArray].numElements > 0
    /\ lastOp.slot > vaState[drawCall.currentVertexArray].numElements
    /\ drawCall.numElements = vaState[drawCall.currentVertexArray].numElements

----------------------------------------------------------------------------
\* Properties of the Query and the Timer

\* C18: Query.ready() returns true only when a begin()/end() cycle has
\* completed since it last returned true and the device has signalled
\* availability; on the first ready() after that it returns true and stores
\* the device's result; so it returns true at most once per cycle; and while
\* a result is pending (after end(), before ready() returned true) begin()
\* and end() issue no native calls.
C18_QueryPollingLatch ==
    [][LET q == lastOp'.w IN
       /\ lastOp'.op = "Query.ready" =>
            /\ returned' => /\ queryState[q].cycle = "completed"
                            /\ deviceQuery[q].phase = "available"
            /\ (queryState[q].cycle = "completed"
                  /\ deviceQuery[q].phase = "available")
                 => /\ returned'
                    /\ queryState'[q].result = deviceQuery[q].value
       /\ (lastOp'.op \in {"Query.begin", "Query.end"} /\ queryState[q].active)
            => nativeCalls' = <<>>]_vars

\* C19: Timer.ready() returns true only after a start()/end() pair has
\* completed since the last time it returned true, in GPU-timer mode with
\* gpuTime taken from the query's result, and so at most once per
\* start()/end() cycle, in GPU-timer and in CPU-only mode alike.
C19_TimerReadyDiscipline ==
    [][(lastOp'.op = "Timer.ready" /\ returned') =>
          /\ timer.cycle = "completed"
          /\ timer.gpuTimer =>
                timer'.gpuTime = deviceQuery["tq1"].value \div NanosPerMilli]_vars

----------------------------------------------------------------------------
\* Properties of the Program link check

RegisteringCalls == {"getUniformLocation", "uniform1i", "uniformBlockBinding"}

\* The step is a checkLinkage() or restore() of p that read LINK_STATUS.
ReadLinkStatus(p) ==
    \/ lastOp'.op = "Program.restore" /\ lastOp'.w = p
    \/ /\ lastOp'.op = "Program.checkLinkage" /\ lastOp'.w = p
       /\ ~linkage[p].linked /\ ~linkage[p].linkFailed

----------------------------------------------------------------------------
\* Properties of delete() and restore()

\* C22: delete() is idempotent for every wrapper kind: a second delete()
\* immediately after the first issues no native call and changes no wrapper
\* or cache state.
C22_DeleteIdempotent ==
    [][(lastOp'.op = "delete" /\ lastOp'.again) =>
          /\ nativeCalls' = <<>>
          /\ programState' = programState
          /\ handle' = handle
          /\ queryState' = queryState /\ timer' = timer
          /\ rbState' = rbState /\ vbState' = vbState
          /\ linkage' = linkage]_vars

----------------------------------------------------------------------------
\* Properties of the App

\* C23: App.defaultDrawFramebuffer() switches back to the default draw
\* framebuffer and resets the viewport to fit it: after the call
\* appState.drawFramebuffer is null and the tracked and the native viewport
\* are (0, 0, app.width, app.height).
C23_DefaultDrawFramebufferResetsViewport ==
    lastOp.op = "App.defaultDrawFramebuffer" =>
        /\ appState.drawFramebuffer = Null
        /\ <<app.viewportX, app.viewportY, app.viewportWidth,
             app.viewportHeight>> = <<0, 0, app.width, app.height>>
        /\ app.glViewport = <<0, 0, app.width, app.height>>

----------------------------------------------------------------------------
\* Properties of DrawCall.draw()

\* The state was produced by DrawCall.draw() on the created DrawCall.
AfterDraw == lastOp.op = "DrawCall.draw" /\ lastOp.w = Null

\* The step of draw() a native call belongs to, in the order of the steps.
DrawStep(c) ==
    CASE c.f = "useProgram" -> 1
      [] c.f = "bindVertexArray" -> 2
      [] c.f = "uniform" -> 3
      [] c.f = "bindBufferBase" /\ c.obj \in UniformBuffers -> 4
      [] c.f \in {"activeTexture", "bindTexture"} -> 5
      [] c.f = "bindTransformFeedback" -> 6
      [] c.f = "bindBufferBase" /\ c.obj = "vb" -> 6
      [] c.f = "beginTransformFeedback" -> 7
      [] IsDrawSubmission(c) -> 8
      [] c.f = "endTransformFeedback" -> 9
      [] OTHER -> 10

IsUniformPush(c) == c.f = "uniform"
IsBeginCapture(c) == c.f = "beginTransformFeedback"
IsEndCapture(c) == c.f = "endTransformFeedback"

\* The native calls of the last operation come in the order of the steps of
\* draw().
InStepOrder ==
    \A i \in 1 .. Len(nativeCalls) : \A j \in 1 .. Len(nativeCalls) :
       i < j => DrawStep(nativeCalls[i]) <= DrawStep(nativeCalls[j])

\* The uniform pushes of the last operation are the staged names and values
\* in insertion order.
PushesAllStaged ==
    LET pushes == SelectSeq(nativeCalls, IsUniformPush) IN
       /\ Len(pushes) = drawCall.uniformCount
       /\ \A i \in 1 .. Len(pushes) :
             /\ pushes[i].obj = drawCall.uniformNames[i]
             /\ pushes[i].payload = <<drawCall.uniformValues[i]>>

\* Capture is begun with the DrawCall's primitive and ended exactly when a
\* transform feedback is attached.
CapturesWhenAttached ==
    LET begins == SelectSeq(nativeCalls, IsBeginCapture)
        ends == SelectSeq(nativeCalls, IsEndCapture)
    IN IF drawCall.currentTransformFeedback = Null
       THEN begins = <<>> /\ ends = <<>>
       ELSE /\ Len(begins) = 1 /\ Len(ends) = 1
            /\ begins[1].payload = <<drawCall.primitive>>

\* C24: every draw() issues its steps in the fixed order: program bind,
\* vertex array bind, one push per staged uniform in insertion order, the
\* uniform buffer binds, the texture binds, with a transform feedback
\* attached its bind and the begin of capture with the DrawCall's primitive,
\* the draw submission, and with a transform feedback attached the end of
\* capture; so no draw submission precedes a bind and no uniform push
\* precedes the program bind.
C24_DrawStepOrder ==
    AfterDraw =>
       /\ InStepOrder
       /\ PushesAllStaged
       /\ Len(SelectSeq(nativeCalls, IsDrawSubmission)) = 1
       /\ CapturesWhenAttached

\* The submission form and arguments the two booleans of the vertex array
\* select for the DrawCall's primitive and counts.
IsSelectedForm(c) ==
    LET va == vaState[drawCall.currentVertexArray]
        primitive == drawCall.primitive
        numElements == drawCall.numElements
        numInstances == drawCall.numInstances
    IN CASE va.instanced /\ va.indexed ->
              /\ c.f = "drawElementsInstanced"
              /\ c.payload = <<primitive, numElements, va.indexType, 0,
                               numInstances>>
         [] va.instanced /\ ~va.indexed ->
              /\ c.f = "drawArraysInstanced"
              /\ c.payload = <<primitive, 0, numElements, numInstances>>
         [] ~va.instanced /\ va.indexed ->
              /\ c.f = "drawElements"
              /\ c.payload = <<primitive, numElements, va.indexType, 0>>
         [] OTHER ->
              /\ c.f = "drawArrays"
              /\ c.payload = <<primitive, 0, numElements>>

\* C25: every draw() issues exactly one native draw submission, of the form
\* the vertex array's instanced and indexed flags select, with the
\* arguments of that form.
C25_OneSubmissionOfSelectedForm ==
    AfterDraw =>
       LET submissions == SelectSeq(nativeCalls, IsDrawSubmission) IN
          /\ Len(submissions) = 1
          /\ IsSelectedForm(submissions[1])

\* The last operation issued a native uniform buffer bind for the base.
BindsBase(base) ==
    \E i \in 1 .. Len(nativeCalls) :
       /\ nativeCalls[i].f = "bindBufferBase"
       /\ nativeCalls[i].obj \in UniformBuffers
       /\ nativeCalls[i].n = base

\* The last operation selected the texture unit.
BindsUnit(unit) ==
    \E i \in 1 .. Len(nativeCalls) :
       nativeCalls[i].f = "activeTexture" /\ nativeCalls[i].n = unit

\* C26: whatever subset of the program's uniform blocks and samplers has a
\* uniform buffer or texture staged, draw() leaves every staged uniform
\* buffer bound to the base of its block and every staged texture bound to
\* the unit of its sampler, issues no bind for a base or unit with nothing
\* staged, and submits the draw.
C26_BindsExactlyStaged ==
    AfterDraw =>
       /\ \A base \in Bases :
             IF drawCall.uniformBuffers[base] = Null
             THEN ~BindsBase(base)
             ELSE appState.uniformBuffers[base] = drawCall.uniformBuffers[base]
       /\ \A unit \in Units :
             IF drawCall.textures[unit] = Null
             THEN ~BindsUnit(unit)
             ELSE appState.textures[unit] = drawCall.textures[unit]
       /\ Len(SelectSeq(nativeCalls, IsDrawSubmission)) = 1

\* The instance count of a draw submission; the forms that are not instanced
\* carry none.
SubmittedInstances(c) ==
    IF c.f \in {"drawArraysInstanced", "drawElementsInstanced"}
    THEN c.payload[Len(c.payload)] ELSE 0

\* C27: the counts a draw() submits follow the vertex array as it is at the
\* draw: with no override in effect they are its numElements and
\* numInstances, and with an override they are never more than it holds,
\* whenever its buffers were bound.
C27_CountsTrackVertexArray ==
    AfterDraw /\ ~result.raised =>
       LET va == vaState[drawCall.currentVertexArray]
           submission == SelectSeq(nativeCalls, IsDrawSubmission)[1]
       IN /\ ~drawCall.override[1] => submission.n = va.numElements
          /\ submission.n <= va.numElements
          /\ va.instanced =>
                /\ ~drawCall.override[2] =>
                      SubmittedInstances(submission) = va.numInstances
                /\ SubmittedInstances(submission) <= va.numInstances

IsNullRebind(c) == c.f = "bindBufferBase" /\ c.obj = Null

\* C28: with a transform feedback of k registered buffer indices attached,
\* draw() issues endTransformFeedback right after the draw submission and
\* then a null rebind of each index 0 .. k-1; with none attached it issues no
\* begin, no end and no null rebind.
C28_CaptureEndAndNullRebinds ==
    AfterDraw =>
       LET f == drawCall.currentTransformFeedback
           n == Len(nativeCalls)
       IN IF f = Null
          THEN \A i \in 1 .. n :
                  /\ ~IsBeginCapture(nativeCalls[i])
                  /\ ~IsEndCapture(nativeCalls[i])
                  /\ ~IsNullRebind(nativeCalls[i])
          ELSE LET k == Len(angleBugBuffers[f]) IN
                  /\ n >= k + 2
                  /\ IsDrawSubmission(nativeCalls[n - k - 1])
                  /\ IsEndCapture(nativeCalls[n - k])
                  /\ \A i \in 0 .. k - 1 :
                        /\ IsNullRebind(nativeCalls[n - k + 1 + i])
                        /\ nativeCalls[n - k + 1 + i].n = i

----------------------------------------------------------------------------
\* Properties of restore()

\* The descriptive attributes of a wrapper after a step equal those before.
KeepsAttributes(kind, w) ==
    CASE kind \in {"Texture.restore", "Cubemap.restore"} ->
            width'[w] = width[w] /\ height'[w] = height[w]
      [] kind = "Renderbuffer.restore" -> rbState'[w] = rbState[w]
      [] kind = "VertexBuffer.restore" -> vbState'[w] = vbState[w]
      [] kind = "UniformBuffer.restore" ->
            /\ offsets'[w] = offsets[w] /\ sizes'[w] = sizes[w]
            /\ types'[w] = types[w] /\ size'[w] = size[w]
            /\ data'[w] = data[w]
      [] kind = "VertexArray.restore" ->
            /\ vaState'[w].numElements = vaState[w].numElements
            /\ vaState'[w].numInstances = vaState[w].numInstances
            /\ vaState'[w].indexed = vaState[w].indexed
            /\ vaState'[w].indexType = vaState[w].indexType
            /\ vaState'[w].instanced = vaState[w].instanced
      [] OTHER -> TRUE

\* C29: restore() of a Texture, Cubemap, Renderbuffer, VertexBuffer,
\* UniformBuffer or VertexArray leaves the wrapper's descriptive attributes
\* as they were before the call.
C29_RestoreKeepsAttributes ==
    [][KeepsAttributes(lastOp'.op, lastOp'.w)]_vars

\* A texture resized to the largest width has been restored, next to a
\* configured vertex array and a uniform buffer with a value stored.
C29_Witness ==
    /\ lastOp.op = "Texture.restore"
    /\ width["t1"] = MaxDim
    /\ vaState["va1"].indexed /\ vaState["va1"].instanced
    /\ "u1" \in created /\ data["u1"] # Zeros(size["u1"])

\* The last operation issued the native call f on obj.
Issued(f, obj) ==
    \E i \in 1 .. Len(nativeCalls) :
       nativeCalls[i].f = f /\ nativeCalls[i].obj = obj

\* C30: Framebuffer.restore() attaches every recorded color and depth
\* attachment to the new native framebuffer and declares the draw buffers
\* again, and VertexArray.restore() of a vertex array with buffers bound
\* points its attributes and its index binding at them again on the new
\* native vertex array.
C30_RestoreReattaches ==
    /\ lastOp.op = "Framebuffer.restore" =>
          LET fb == lastOp.w IN
             /\ \A i \in 1 .. Len(colorAttachments[fb]) :
                   colorAttachments[fb][i] # Null =>
                      Issued("framebufferTexture2D", colorAttachments[fb][i])
             /\ depthAttachment[fb] # Null =>
                   Issued("framebufferTexture2D", depthAttachment[fb])
             /\ colorAttachments[fb] # <<>> => Issued("drawBuffers", fb)
    /\ lastOp.op = "VertexArray.restore" =>
          LET v == lastOp.w IN
             /\ vaState[v].instanced => Issued("vertexAttribPointer", v)
             /\ vaState[v].indexed =>
                   Issued("bindBuffer", "ELEMENT_ARRAY_BUFFER")

\* C31: restore() without a data argument on a Texture or VertexBuffer that
\* data had been uploaded to, or on a UniformBuffer whose store update() had
\* uploaded, leaves the new native object with the contents last uploaded.
C31_RestoreReuploads ==
    [][LET w == lastOp'.w IN
       /\ lastOp'.op = "Texture.restore" /\ lastOp'.slot = 0
             /\ native.contents[w] = "image"
          => native'.contents[w] = "image"
       /\ lastOp'.op = "VertexBuffer.restore"
             /\ native.contents[w] \in {"data", "newer data"}
          => native'.contents[w] = native.contents[w]
       /\ lastOp'.op = "UniformBuffer.restore"
             /\ (\E i \in 1 .. size[w] : uploaded[w][i] # None)
          => deviceData'[w] = deviceData[w]]_vars

----------------------------------------------------------------------------
\* Properties of Program introspection

IntrospectionCalls ==
    {"getActiveUniform", "getUniformLocation", "uniform1i",
     "getActiveUniformBlockName", "getUniformBlockIndex",
     "uniformBlockBinding"}

\* The step constructed, restored or checked program p and read its
\* LINK_STATUS.
LinkChecked(p) ==
    /\ lastOp'.w = p
    /\ lastOp'.op \in {"Program.constructor", "Program.restore",
                       "Program.checkLinkage"}
    /\ \E i \in 1 .. Len(nativeCalls') :
          nativeCalls'[i].f = "getProgramParameter"

\* The last native call of the step that names f, 0 if there is none.
LastCall(f) ==
    LET at == {i \in 1 .. Len(nativeCalls') : nativeCalls'[i].f = f}
    IN IF at = {} THEN 0 ELSE CHOOSE i \in at : \A j \in at : j <= i

\* C32: introspection runs only after a successful link: a step that reads
\* LINK_STATUS false issues no introspection call after it (no useProgram of
\* the program, no enumeration of uniforms or blocks, no sampler unit or
\* block base assignment) and does not make the program the bound program of
\* the state cache.
C32_IntrospectOnlyLinked ==
    [][\A p \in Programs :
         (LinkChecked(p) /\ ~linkage'[p].status) =>
            /\ appState'.program # p
            /\ \A i \in 1 .. Len(nativeCalls') :
                  /\ nativeCalls'[i].f \notin IntrospectionCalls
                  /\ ~(nativeCalls'[i].f = "useProgram"
                       /\ nativeCalls'[i].obj = p)
                  /\ nativeCalls'[i].f = "getProgramParameter"
                        => i <= LastCall("linkProgram") + 1]_vars

IsUnitAssignment(c) == c.f = "uniform1i"
IsBaseAssignment(c) == c.f = "uniformBlockBinding"

\* The calls are made for names, in their order, with the numbers 0, 1, ...
AssignsInOrder(calls, names) ==
    /\ Len(calls) = Len(names)
    /\ \A k \in 1 .. Len(names) :
          calls[k].obj = names[k] /\ calls[k].n = k - 1

----------------------------------------------------------------------------
\* Properties of shader ownership

\* Whether the stage of p was given as a source string, as of the step's end.
OwnStage(p, stage) ==
    IF stage = VERTEX_STAGE THEN linkage'[p].vertexSource
    ELSE linkage'[p].fragmentSource

\* The positions of the step's native calls equal to c.
CallsAt(c) == {i \in 1 .. Len(nativeCalls') : nativeCalls'[i] = c}

\* C34: a Program never deletes a Shader the caller supplied; a shader it
\* compiled itself from a source string is deleted exactly once per link
\* (construction or restore), after the link status has been read, whether
\* the link succeeded or failed: no step deletes a stage twice or before
\* reading LINK_STATUS, every step that reads it deletes the program's own
\* stages, and no link compiles new shaders while the wrapper still holds
\* the undeleted ones of the link before.
C34_ShaderOwnership ==
    [][\A p \in Programs : \A stage \in {VERTEX_STAGE, FRAGMENT_STAGE} :
         LET deletes == CallsAt(Call("deleteShader", p, stage))
             compiles == CallsAt(Call("createShader", p, stage))
             reads == CallsAt(Call("getProgramParameter", p, -1))
         IN /\ ~OwnStage(p, stage) => (deletes = {} /\ compiles = {})
            /\ Cardinality(deletes) <= 1
            /\ \A i \in deletes : \E j \in reads : j < i
            /\ (LinkChecked(p) /\ OwnStage(p, stage)) =>
                  Cardinality(deletes) = 1
            /\ compiles # {} => ~linkage[p].ownShaders]_vars

----------------------------------------------------------------------------
\* Properties of unsupported types

IsSupportedTag(type) == type \in SupportedTypes
IsRecognized(info) == IsSampler(info) \/ HasSetter(info)

\* The entries of seq at the positions where lay has a supported tag.
RECURSIVE AtSupported(_, _)
AtSupported(seq, lay) ==
    IF lay = <<>> THEN <<>>
    ELSE IF IsSupportedTag(Head(lay))
    THEN <<Head(seq)>> \o AtSupported(Tail(seq), Tail(lay))
    ELSE AtSupported(Tail(seq), Tail(lay))

\* The uniform buffer u is laid out as lay without its unsupported tags
\* would be, and the unsupported entries have no offset.
LaidOutWithout(u, lay) ==
    LET ref == ComputeLayout(SelectSeq(lay, IsSupportedTag)) IN
       /\ size'[u] = ref.size
       /\ AtSupported(offsets'[u], lay) = ref.offsets
       /\ AtSupported(sizes'[u], lay) = ref.sizes
       /\ AtSupported(types'[u], lay) = ref.types
       /\ \A i \in 1 .. Len(lay) :
             ~IsSupportedTag(lay[i]) => offsets'[u][i] = Undefined

\* The step's calls that register something: unit and base assignments.
Registrations(calls) ==
    SelectSeq(calls, LAMBDA c : IsUnitAssignment(c) \/ IsBaseAssignment(c))

\* C35: an unsupported type is skipped and the rest continues: a
\* UniformBuffer layout with an unrecognized tag, or a Program with a uniform
\* of an unrecognized type, gets one diagnostic per such entry and no
\* exception; the entry gets no offset / no setter and moves neither the
\* layout cursor nor the sampler counter, and every other entry is laid out
\* or registered as if it were absent.
C35_UnsupportedSkipped ==
    [][/\ lastOp'.op = "UniformBuffer.constructor" =>
          LET u == lastOp'.w
              lay == layout'[u]
              skipped == Len(lay) - Len(SelectSeq(lay, IsSupportedTag))
          IN /\ LaidOutWithout(u, lay)
             /\ skipped > 0 => (~result'.raised /\ result'.errors = skipped)
       /\ \A p \in Programs :
            (LinkChecked(p) /\ linkage'[p].status) =>
               LET shader == linkage'[p].source
                   known == SelectSeq(shader.active, IsRecognized)
                   skipped == Len(shader.active) - Len(known)
               IN /\ ~result'.raised /\ result'.errors = skipped
                  /\ Registrations(nativeCalls') =
                        Registrations(InitVariables(p,
                                         ShaderOf(known, shader.blocks)).calls)
                  /\ \A i \in 1 .. Len(shader.active) :
                        ~IsRecognized(shader.active[i]) =>
                           shader.active[i].name
                              \notin programInfo'[p].uniforms]_vars

\* A uniform buffer was constructed with an unsupported tag between two
\* supported ones.
C35_Witness ==
    /\ lastOp.op = "UniformBuffer.constructor"
    /\ layout["u1"] = <<"FLOAT", "SAMPLER_2D", "FLOAT_VEC2">>
    /\ offsets["u1"] = <<0, Undefined, 2>>
    /\ result.errors = 1

----------------------------------------------------------------------------
\* Properties of the state cache against the context

\* What a binding point of the context holds when it holds wrapper w's
\* current native handle (null for a wrapper that has none).
HandleOf(w) == IF handle[w] THEN [w |-> w, current |-> TRUE] ELSE NoBinding

\* C36: whenever the state cache names a vertex array as the bound one, the
\* vertex array bound in the context is that wrapper's current native
\* handle.
C36_VertexArrayCoherent ==
    appState.vertexArray # Null =>
       native.vertexArray = HandleOf(appState.vertexArray)

\* The binding point holds the current native handle of the wrapper the cache
\* slot names, if it names one.
Coherent(slot, binding) == slot # Null => binding = HandleOf(slot)

\* C37: whenever the program, drawFramebuffer, readFramebuffer or
\* transformFeedback slot of the state cache, a textures[N] slot or a
\* uniformBuffers[N] slot names a wrapper, the object bound at that point of
\* the context is the wrapper's current native handle, never one that
\* restore(), resize() or delete() replaced or released.
C37_SlotsCoherent ==
    /\ Coherent(appState.program, native.program)
    /\ Coherent(appState.drawFramebuffer, native.drawFramebuffer)
    /\ Coherent(appState.readFramebuffer, native.readFramebuffer)
    /\ Coherent(appState.transformFeedback, native.transformFeedback)
    /\ \A unit \in Units :
          Coherent(appState.textures[unit], native.textures[unit])
    /\ \A base \in Bases :
          Coherent(appState.uniformBuffers[base], native.uniformBuffers[base])

----------------------------------------------------------------------------
\* Properties of transform feedback capture

\* The context as the first k - 1 native calls of the step leave it.
ContextBefore(k) == FollowCalls(native, SubSeq(nativeCalls', 1, k - 1), 1)

\* C38: every time draw() begins capture for the attached transform
\* feedback, the second and later consecutive draw() with the same one
\* included, that transform feedback is bound in the context and each buffer
\* registered on it is bound at its index of the indexed
\* TRANSFORM_FEEDBACK_BUFFER target.
C38_BuffersBoundAtCapture ==
    [][lastOp'.op = "DrawCall.draw" =>
          \A k \in 1 .. Len(nativeCalls') :
             nativeCalls'[k].f = "beginTransformFeedback" =>
                LET f == drawCall.currentTransformFeedback
                    at == ContextBefore(k)
                IN /\ at.transformFeedback = [w |-> f, current |-> TRUE]
                   /\ \A i \in 1 .. Len(angleBugBuffers[f]) :
                         at.feedbackBuffers[f][i - 1] = angleBugBuffers[f][i]]_vars

----------------------------------------------------------------------------
\* Properties of the uniform buffer slots

\* C39: no cross-eviction between uniform buffers: A.bind(base) changes no
\* uniformBuffers slot of the state cache other than base, unless that slot
\* named A itself; so after A.restore() and B.bind(N) at A's former base N,
\* A.bind(M) with M # N leaves uniformBuffers[N] naming B.
C39_NoCrossEviction ==
    [][lastOp'.op = "UniformBuffer.bind" =>
          \A n \in Bases \ {lastOp'.slot} :
             appState.uniformBuffers[n] # lastOp'.w =>
                appState'.uniformBuffers[n] = appState.uniformBuffers[n]]_vars

----------------------------------------------------------------------------
\* Properties of the native query calls

\* C40: the beginQuery and endQuery calls one Query issues strictly
\* alternate, starting with beginQuery: begin() issues no beginQuery while
\* the query is begun and not ended, and end() issues no endQuery without a
\* preceding unmatched beginQuery.
C40_BeginEndAlternate ==
    [][LET q == lastOp'.w IN
       /\ (lastOp'.op = "Query.begin" /\ nativeCalls' # <<>>)
            => /\ queryState[q].cycle # "begun"
               /\ deviceQuery[q].phase # "running"
       /\ (lastOp'.op = "Query.end" /\ nativeCalls' # <<>>)
            => /\ queryState[q].cycle = "begun"
               /\ deviceQuery[q].phase = "running"]_vars
====
